---- MODULE Spec2Model ----
(***************************************************************************)
(* Model of the clauded multi-provider proxy: the token-bucket rate        *)
(* limiter (lib/rate-limiter.js), the provider handlers' admission step    *)
(* the context compaction engine, the schema translator, the tool-call     *)
(* decoder and the model dispatcher (model-proxy-server.js).               *)
(*                                                                         *)
(* Time is in integer milliseconds (Date.now()).  A bucket holds a         *)
(* fractional number of tokens; the model keeps it exactly, in units of    *)
(* 1/60000 token, so that elapsed/1000/60 * Q tokens is elapsed * Q units. *)
(***************************************************************************)
EXTENDS Integers, Sequences, FiniteSets, TLC

\* ------------------------------------------------------------------ bounds
MaxNow == 4000
NumReq == 2
MaxExtra == 2
MaxPasses == 2
MaxTextLen == 6
MaxSegments == 2
MaxNativeCalls == 2
MaxMsgs == 3
MaxModelLen == 4

\* --------------------------------------------------------------- constants
MsPerMinute == 60000
PollCeiling == 1000

Providers == {"glm", "featherless", "google", "anthropic"}
Req == 1..NumReq

VARIABLES
  now,            \* Date.now()
  limits,         \* RateLimiter.limits: provider -> tokens per minute
  buckets,        \* RateLimiter.buckets, in units of 1/60000 token
  lastRefill,     \* RateLimiter.lastRefill
  pc,             \* position of each request's handler
  prov,           \* provider of each request
  startTime,      \* waitForToken's startTime
  timeoutOf,      \* waitForToken's timeoutMs
  lastPoll,       \* time of the call's latest canProceed
  granted,        \* the request's waitForToken call consumed a token
  outbound,       \* the request has called makeRequest
  admittedCount,  \* tokens consumed per provider since construction
  emptyRefill,    \* per provider: the latest refill of an empty bucket
  cmConfig,       \* COMPACTION_CONFIG as loaded from the environment
  cmLimit,        \* the context limit of the request's model
  cmSystem,       \* length of the request's system text (characters)
  cmMaxTokens,    \* the request's max_tokens (0: absent)
  cmOrig,         \* the messages of the request as received
  cmPrev,         \* the messages given to the latest compactMessages call
  cmBody,         \* the messages of the working body
  cmResult,       \* compacted flag and stats of the latest call
  cmPasses,       \* number of compactMessages calls made
  call,           \* the function call under study and its arguments
  ret,            \* what that call returned
  inbound,        \* per request: what the client sent (kind, model) and
                  \* the credentials available to its handler (keys)
  upstream,       \* per request: whether the provider answers its call
  response,       \* per request: what the proxy wrote to the client
  stages,         \* per request: the pipeline stages run, in order
  glmCall         \* the MCP server's callGLM invocation: loop position,
                  \* attempt, endpoint, lastError, attempts and sleeps so far

rlVars == <<now, limits, buckets, lastRefill, pc, prov, startTime, timeoutOf,
            lastPoll, granted, outbound, admittedCount, emptyRefill>>

cmVars == <<cmConfig, cmLimit, cmSystem, cmMaxTokens, cmOrig, cmPrev, cmBody,
            cmResult, cmPasses>>

fnVars == <<call, ret>>

hxVars == <<inbound, upstream, response, stages>>

rtVars == <<glmCall>>

vars == <<rlVars, cmVars, fnVars, hxVars, rtVars>>

Min(a, b) == IF a <= b THEN a ELSE b
Max(a, b) == IF a >= b THEN a ELSE b
CeilDiv(a, b) == (a + b - 1) \div b

\* ------------------------------------------------------------ rate limiter

DefaultLimit(p) ==
  CASE p = "glm" -> 60
    [] p = "featherless" -> 100
    [] p = "google" -> 60
    [] p = "anthropic" -> 50

\* constructor: config.<p> || default (0 stands for an absent entry)
ConstructorLimits(config) ==
  [p \in Providers |-> IF config[p] = 0 THEN DefaultLimit(p) ELSE config[p]]

\* The configuration the model is run with: glm keeps its quota of 60, the
\* other quotas are small so that their buckets drain within a few calls
\* (17 does not divide 60000: its regeneration time is fractional).
Configs ==
  { [glm |-> 0, featherless |-> 1, google |-> 2, anthropic |-> 17] }

\* timeoutMs of a waitForToken call
Timeouts == {0, 2000}

\* refillTokens without the cap at the limit
refillTokens_NoCap(bucket, elapsed, limit) == bucket + elapsed * limit

\* refillTokens adding the quota per second instead of per minute
refillTokens_PerSecond(bucket, elapsed, limit) ==
  Min(limit * MsPerMinute, bucket + elapsed * limit * 60)

\* refillTokens: min(limit, bucket + elapsed/1000/60 * limit)
refillTokens(bucket, elapsed, limit) ==
  Min(limit * MsPerMinute, bucket + elapsed * limit)

\* canProceed admitting on any fraction of a token
canProceed_AnyFraction(bucket) == bucket > 0

\* canProceed, after the refill: buckets[provider] >= 1
canProceed(bucket) == bucket >= MsPerMinute

\* consumeToken: a falsy (zero) bucket is first reset to the limit
consumeToken(bucket, limit) ==
  (IF bucket = 0 THEN limit * MsPerMinute ELSE bucket) - MsPerMinute

\* the wait rounded down instead of up
WaitTime_Floor(limit) == MsPerMinute \div limit

\* waitForToken: Math.ceil(1 / (limit / 60000))
WaitTime(limit) == CeilDiv(MsPerMinute, limit)

\* waitForToken: the setTimeout delay, Math.min(waitTime, 1000)
SleepTime(limit) == Min(WaitTime(limit), PollCeiling)

\* the deadline test with >= instead of >
TimedOut_AtDeadline(elapsed, timeoutMs) == elapsed >= timeoutMs

\* waitForToken: Date.now() - startTime > timeoutMs
TimedOut(elapsed, timeoutMs) == elapsed > timeoutMs

\* a handler whose catch block does not return
AfterAdmission_NoReturn(ok) == "admitted"

\* the handlers' try/catch around waitForToken
AfterAdmission(ok) == IF ok THEN "admitted" ELSE "rejected"

Refilled(p) == refillTokens(buckets[p], now - lastRefill[p], limits[p])

\* when the pending setTimeout of a sleeping call is due
WakeAt(r) == lastPoll[r] + SleepTime(limits[prov[r]])

\* the providers that have had traffic
InUse == {p \in Providers : admittedCount[p] > 0}

\* One iteration of waitForToken's loop by request r on provider p, with
\* startTime s and timeoutMs t: refill, check, then consume, throw or sleep.
\* Nothing in it awaits, so it is one step.
Poll(r, p, s, t) ==
  LET b == Refilled(p)
      ok == canProceed(b)
      out == TimedOut(now - s, t)
  IN /\ emptyRefill' = IF buckets[p] = 0 /\ now > lastRefill[p]
                       THEN [emptyRefill EXCEPT
                               ![p] = [elapsed |-> now - lastRefill[p],
                                       to |-> b, admitted |-> ok]]
                       ELSE emptyRefill
     /\ granted' = [granted EXCEPT ![r] = ok]
     /\ lastRefill' = [lastRefill EXCEPT ![p] = now]
     /\ lastPoll' = [lastPoll EXCEPT ![r] = now]
     /\ buckets' = [buckets EXCEPT
                      ![p] = IF ok THEN consumeToken(b, limits[p]) ELSE b]
     /\ admittedCount' = [admittedCount EXCEPT
                            ![p] = IF ok THEN @ + 1 ELSE @]
     /\ pc' = [pc EXCEPT
                 ![r] = IF ok \/ out THEN AfterAdmission(ok) ELSE "sleeping"]

\* A request arrives at the handler of provider p, which calls
\* waitForToken(p, t); the first loop iteration runs in the same turn.
\* The limiter keeps every field per provider, so the buckets do not
\* interact: a run sends all its requests to the provider of its first one.
Arrive(r, p, t) ==
  /\ pc[r] = "idle"
  /\ InUse \subseteq {p}
  /\ prov' = [prov EXCEPT ![r] = p]
  /\ startTime' = [startTime EXCEPT ![r] = now]
  /\ timeoutOf' = [timeoutOf EXCEPT ![r] = t]
  /\ Poll(r, p, now, t)
  /\ UNCHANGED <<cmVars, fnVars, rtVars, hxVars>>
  /\ UNCHANGED <<now, limits, outbound>>

\* The poll loop's setTimeout fires (never early, possibly late).
Wake(r) ==
  /\ pc[r] = "sleeping"
  /\ now >= WakeAt(r)
  /\ Poll(r, prov[r], startTime[r], timeoutOf[r])
  /\ UNCHANGED <<cmVars, fnVars, rtVars, hxVars>>
  /\ UNCHANGED <<now, limits, prov, startTime, timeoutOf, outbound>>

\* The handler resumes after the await and calls makeRequest.
Send(r) ==
  /\ pc[r] = "admitted"
  /\ pc' = [pc EXCEPT ![r] = "sending"]
  /\ outbound' = [outbound EXCEPT ![r] = TRUE]
  /\ startTime' = [startTime EXCEPT ![r] = 0]
  /\ timeoutOf' = [timeoutOf EXCEPT ![r] = 0]
  /\ lastPoll' = [lastPoll EXCEPT ![r] = 0]
  /\ UNCHANGED <<cmVars, fnVars, rtVars, hxVars>>
  /\ UNCHANGED <<now, limits, buckets, lastRefill, prov, granted,
                 admittedCount, emptyRefill>>

\* The transport answers (or fails) and the handler writes the response.
Respond(r) ==
  /\ pc[r] = "sending"
  /\ pc' = [pc EXCEPT ![r] = "done"]
  /\ UNCHANGED <<cmVars, fnVars, rtVars, hxVars>>
  /\ UNCHANGED <<now, limits, buckets, lastRefill, prov, startTime, timeoutOf,
                 lastPoll, granted, outbound, admittedCount, emptyRefill>>

\* The request is over; its slot serves the next inbound request.
Finish(r) ==
  /\ pc[r] \in {"done", "rejected", "ctxerror"}
  /\ pc' = [pc EXCEPT ![r] = "idle"]
  /\ prov' = [prov EXCEPT ![r] = "glm"]
  /\ startTime' = [startTime EXCEPT ![r] = 0]
  /\ timeoutOf' = [timeoutOf EXCEPT ![r] = 0]
  /\ lastPoll' = [lastPoll EXCEPT ![r] = 0]
  /\ granted' = [granted EXCEPT ![r] = FALSE]
  /\ outbound' = [outbound EXCEPT ![r] = FALSE]
  /\ UNCHANGED <<cmVars, fnVars, rtVars, hxVars>>
  /\ UNCHANGED <<now, limits, buckets, lastRefill, admittedCount,
                 emptyRefill>>

\* Time passes.
Deltas == {PollCeiling} \cup {WaitTime(limits[p]) : p \in InUse}

Tick(d) ==
  /\ now + d <= MaxNow
  /\ now' = now + d
  /\ UNCHANGED <<cmVars, fnVars, rtVars, hxVars>>
  /\ UNCHANGED <<limits, buckets, lastRefill, pc, prov, startTime, timeoutOf,
                 lastPoll, granted, outbound, admittedCount, emptyRefill>>

\* ------------------------------------------------------ context compaction
\* A message is [id, role, chars, resultChars]: id is its position in the
\* request as received (0 for a synthetic summary), chars the length of its
\* text (a string content, or the one text block of an array content) and
\* resultChars the length of the content of its tool_result block (0: none).
\* The text is filler without line breaks, file names or action verbs, so
\* the summary's Files and Topics lines stay empty.

DefaultTailReserve == 6
ResponseTokenReserve == 2048
MinContextTokens == 1024
BufferRatioPercent == 85
SummaryMaxTokens == 512
DefaultContextLimit == 8192
CheckDefaultMaxTokens == 4096
SnippetChars == 200

NoResult ==
  [compacted |-> FALSE, original |-> 0, final |-> 0, removed |-> 0,
   finalTokens |-> 0]

\* estimateTokens: Math.ceil(text.length / 4), 0 for an empty text
estimateTokens(chars) == CeilDiv(chars, 4)

\* estimateTokens(extractMessageText(msg)): the text blocks only
MsgTokens(m) == estimateTokens(m.chars)

RECURSIVE SumTokens(_)
SumTokens(msgs) ==
  IF msgs = <<>> THEN 0 ELSE MsgTokens(Head(msgs)) + SumTokens(Tail(msgs))

\* checkContextLimit's count of one message: text and tool_result blocks
CheckMsgTokens(m) == estimateTokens(m.chars) + estimateTokens(m.resultChars)

RECURSIVE SumCheckTokens(_)
SumCheckTokens(msgs) ==
  IF msgs = <<>> THEN 0
  ELSE CheckMsgTokens(Head(msgs)) + SumCheckTokens(Tail(msgs))

\* checkContextLimit: the estimated total of a request
CheckEstimate(msgs, system, maxTok) ==
  estimateTokens(system) + SumCheckTokens(msgs)
    + (IF maxTok = 0 THEN CheckDefaultMaxTokens ELSE maxTok)

\* checkContextLimit(...).ok
checkContextLimit(msgs, system, maxTok, limit) ==
  ~(CheckEstimate(msgs, system, maxTok) > limit)

\* number of decimal digits of a count
Digits(n) == IF n < 10 THEN 1 ELSE IF n < 100 THEN 2 ELSE 3

\* the last message of role user, as [...messages].reverse().find(...)
RECURSIVE LastUser(_)
LastUser(msgs) ==
  IF msgs = <<>> THEN <<>>
  ELSE IF msgs[Len(msgs)].role = "user" THEN <<msgs[Len(msgs)]>>
  ELSE LastUser(SubSeq(msgs, 1, Len(msgs) - 1))

RECURSIVE CountResults(_)
CountResults(msgs) ==
  IF msgs = <<>> THEN 0
  ELSE (IF Head(msgs).resultChars > 0 THEN 1 ELSE 0) + CountResults(Tail(msgs))

\* createLocalSummary: the length of the summary text.  Its lines, joined by
\* a line break: "[COMPACTED CONTEXT: N messages]", "Actions completed: N"
\* and "Last request: "<first 200 characters><... if longer>"".
createLocalSummary(msgs) ==
  IF Len(msgs) = 0 THEN 21
  ELSE
    LET actions == CountResults(msgs)
        lu == LastUser(msgs)
        text == IF lu = <<>> THEN 0 ELSE lu[1].chars
    IN 30 + Digits(Len(msgs))
       + (IF actions > 0 THEN 1 + 19 + Digits(actions) ELSE 0)
       + (IF text > 0
          THEN 1 + 15 + Min(text, SnippetChars)
               + (IF text > SnippetChars THEN 3 ELSE 0) + 1
          ELSE 0)

\* the early return taken only below tailReserve
ShortCircuit_Strict(config, n) == ~config.enabled \/ n < config.tailReserve

\* compactMessages: the first early return
ShortCircuit(config, n) == ~config.enabled \/ n <= config.tailReserve

\* compactMessages: availableTokens
AvailableTokens(system, maxTok, limit) ==
  ((limit * BufferRatioPercent) \div 100) - estimateTokens(system)
    - (IF maxTok = 0 THEN ResponseTokenReserve ELSE maxTok)

\* a tail one message short
tailCount_OneShort(config, n) == Min(config.tailReserve, n) - 1

\* compactMessages: tailCount
tailCount(config, n) == Min(config.tailReserve, n)

\* compactMessages: targetOlderTokens
TargetOlderTokens(available, recentTokens) ==
  Max(available - recentTokens - SummaryMaxTokens, MinContextTokens)

\* the removal done once instead of in a loop
RemoveOldest_Once(older, olderTokens, target) ==
  IF olderTokens > target /\ Len(older) > 0 THEN 1 ELSE 0

\* compactMessages: the while loop; the number of messages it removes
RECURSIVE RemoveOldest(_, _, _)
RemoveOldest(older, olderTokens, target) ==
  IF olderTokens > target /\ Len(older) > 0
  THEN 1 + RemoveOldest(Tail(older), olderTokens - MsgTokens(Head(older)),
                        target)
  ELSE 0

Unchanged(msgs) ==
  [messages |-> msgs, compacted |-> FALSE, original |-> Len(msgs),
   final |-> Len(msgs), removed |-> 0, finalTokens |-> 0]

\* a reconstruction that drops the older messages that were not removed
Reconstruct_DropKept(summary, kept, recent) == <<summary>> \o recent

\* compactMessages: [summaryMessage, ...olderMessages, ...recentMessages]
Reconstruct(summary, kept, recent) == <<summary>> \o kept \o recent

\* compactMessages(anthropicBody, contextLimit)
compactMessages(msgs, system, maxTok, limit, config) ==
  IF ShortCircuit(config, Len(msgs)) THEN Unchanged(msgs)
  ELSE
    LET available == AvailableTokens(system, maxTok, limit)
    IN IF SumTokens(msgs) <= available THEN Unchanged(msgs)
       ELSE
         LET n == Len(msgs)
             tc == tailCount(config, n)
             older == SubSeq(msgs, 1, n - tc)
             recent == SubSeq(msgs, n - tc + 1, n)
             recentTokens == SumTokens(recent)
             target == TargetOlderTokens(available, recentTokens)
             k == RemoveOldest(older, SumTokens(older), target)
             toSummarize == SubSeq(older, 1, k)
             kept == SubSeq(older, k + 1, Len(older))
             summary == [id |-> 0, role |-> "user",
                         chars |-> createLocalSummary(toSummarize),
                         resultChars |-> 0]
             out == Reconstruct(summary, kept, recent)
         IN [messages |-> out, compacted |-> TRUE, original |-> n,
             final |-> Len(out), removed |-> k,
             finalTokens |-> MsgTokens(summary) + SumTokens(kept)
                               + recentTokens]

\* applyCompaction: one compactMessages call on the working body
Compact ==
  /\ cmPasses < MaxPasses
  /\ LET res == compactMessages(cmBody, cmSystem, cmMaxTokens, cmLimit,
                                cmConfig)
     IN /\ cmPrev' = cmBody
        /\ cmBody' = res.messages
        /\ cmResult' = [compacted |-> res.compacted,
                        original |-> res.original, final |-> res.final,
                        removed |-> res.removed,
                        finalTokens |-> res.finalTokens]
  /\ cmPasses' = cmPasses + 1
  /\ UNCHANGED <<cmConfig, cmLimit, cmSystem, cmMaxTokens, cmOrig>>
  /\ UNCHANGED <<rlVars, fnVars, rtVars, hxVars>>

\* The requests the compaction model is run on.
SmallUser == [role |-> "user", chars |-> 8, resultChars |-> 0]
BigAssistant == [role |-> "assistant", chars |-> 4400, resultChars |-> 0]
HugeUser == [role |-> "user", chars |-> 20000, resultChars |-> 0]
ToolResult == [role |-> "user", chars |-> 0, resultChars |-> 8000]
LongUser == [role |-> "user", chars |-> 300, resultChars |-> 0]

CompactionConfigs ==
  { [enabled |-> TRUE, tailReserve |-> 2],
    [enabled |-> TRUE, tailReserve |-> DefaultTailReserve],
    [enabled |-> FALSE, tailReserve |-> 2] }

KindsFor(config) ==
  IF config.tailReserve > 2 THEN {SmallUser, BigAssistant, HugeUser}
  ELSE {SmallUser, BigAssistant, HugeUser, ToolResult, LongUser}

WithIds(f) ==
  [i \in DOMAIN f |->
     [id |-> i, role |-> f[i].role, chars |-> f[i].chars,
      resultChars |-> f[i].resultChars]]

\* new RateLimiter(config), for a config of the set cs
Constructed(cs) ==
  /\ now = 0
  /\ limits \in {ConstructorLimits(c) : c \in cs}
  /\ buckets = [p \in Providers |-> limits[p] * MsPerMinute]
  /\ lastRefill = [p \in Providers |-> 0]
  /\ pc = [r \in Req |-> "idle"]
  /\ prov = [r \in Req |-> "glm"]
  /\ startTime = [r \in Req |-> 0]
  /\ timeoutOf = [r \in Req |-> 0]
  /\ lastPoll = [r \in Req |-> 0]
  /\ granted = [r \in Req |-> FALSE]
  /\ outbound = [r \in Req |-> FALSE]
  /\ admittedCount = [p \in Providers |-> 0]
  /\ emptyRefill = [p \in Providers |->
                    [elapsed |-> 0, to |-> 0, admitted |-> FALSE]]

RateLimiterInit == Constructed(Configs)

NoCompaction ==
  /\ cmConfig = [enabled |-> TRUE, tailReserve |-> DefaultTailReserve]
  /\ cmLimit = DefaultContextLimit
  /\ cmSystem = 0
  /\ cmMaxTokens = 0
  /\ cmOrig = <<>>
  /\ cmPrev = <<>>
  /\ cmBody = <<>>
  /\ cmResult = NoResult
  /\ cmPasses = 0

\* no translator, decoder or dispatcher function is under study
NoCall ==
  /\ call = [fn |-> "none"]
  /\ ret = [fn |-> "none"]

\* no request is followed through handleRequest
NoResponse == [status |-> 0, origin |-> "none", body |-> [none |-> TRUE]]

NoInbound == [kind |-> "none", model |-> <<>>, keys |-> {}]

NoError == [kind |-> "none", status |-> 0]

\* FALLBACK_ENDPOINTS, in order of preference
FALLBACK_ENDPOINTS ==
  <<"https://api.z.ai/api/coding/paas/v4",
    "https://open.bigmodel.cn/api/paas/v4", "https://api.z.ai/v1">>

\* callGLM's locals before its first invocation; base is GLM_BASE_URL
IdleCall ==
  [pc |-> "idle", base |-> FALLBACK_ENDPOINTS[1], attempt |-> 0,
   endpoint |-> FALLBACK_ENDPOINTS[1], lastError |-> NoError,
   log |-> <<>>, sleeps |-> <<>>]

\* callGLM is not running
NoRetry == glmCall = IdleCall

NoExchange ==
  /\ inbound = [r \in Req |-> NoInbound]
  /\ upstream = [r \in Req |-> "none"]
  /\ response = [r \in Req |-> NoResponse]
  /\ stages = [r \in Req |-> <<>>]

Init == RateLimiterInit /\ NoCompaction /\ NoCall /\ NoExchange /\ NoRetry

Next ==
  \/ \E r \in Req, p \in Providers, t \in Timeouts : Arrive(r, p, t)
  \/ \E r \in Req : Wake(r)
  \/ \E r \in Req : Send(r)
  \/ \E r \in Req : Respond(r)
  \/ \E r \in Req : Finish(r)
  \/ \E d \in Deltas : Tick(d)

Spec == Init /\ [][Next]_vars

\* The compaction engine on its own: every request of the bounded input
\* set, compacted up to MaxPasses times.
CompactInit ==
  /\ RateLimiterInit
  /\ cmConfig \in CompactionConfigs
  /\ cmLimit \in {DefaultContextLimit, 32768}
  /\ cmSystem \in {0, 4000}
  /\ cmMaxTokens \in {0, 4096}
  /\ \E n \in 0..(cmConfig.tailReserve + MaxExtra) :
       \E f \in [1..n -> KindsFor(cmConfig)] : cmOrig = WithIds(f)
  /\ cmPrev = <<>>
  /\ cmBody = cmOrig
  /\ cmResult = NoResult
  /\ cmPasses = 0
  /\ NoCall
  /\ NoExchange
  /\ NoRetry

CompactNext == Compact

CompactSpec == CompactInit /\ [][CompactNext]_vars

\* ------------------------------------------------------- tool-call decoder
\* An assistant text is a sequence of tokens: "OPEN" is <tool_call>, "CLOSE"
\* is </tool_call>, "WS" is a run of whitespace, "TXT" is prose without
\* braces or delimiters, "J1" and "J2" are the texts of two JSON objects
\* {"name": ..., "arguments": {...}} and "BAD" is a text that starts with {
\* and holds no } (a truncated object such as {"name": ).
TextTokens ==
  {"OPEN", "CLOSE", "WS", "TXT", "J1", "J2", "BAD", "JNoArgs", "JNoName"}

\* the texts of a JSON object: two with a name and arguments, one with a
\* name only, one with arguments only
JsonObjects == {"J1", "J2", "JNoArgs", "JNoName"}

StartsWithBrace(tok) == tok \in JsonObjects \cup {"BAD"}
EndsWithBrace(tok) == tok \in JsonObjects

\* \s* from position i: the first position that is not whitespace
RECURSIVE SkipWs(_, _)
SkipWs(t, i) ==
  IF i <= Len(t) /\ t[i] = "WS" THEN SkipWs(t, i + 1) ELSE i

\* the candidates of [\s\S]*?\} from the { at position j: a } that is
\* followed by \s*</tool_call>
ClosingBraces(t, j) ==
  {e \in j..Len(t) :
     /\ EndsWithBrace(t[e])
     /\ SkipWs(t, e + 1) <= Len(t)
     /\ t[SkipWs(t, e + 1)] = "CLOSE"}

\* the lazy quantifier takes the first candidate
LazyEnd(t, j) ==
  LET C == ClosingBraces(t, j)
  IN IF C = {} THEN 0 ELSE CHOOSE e \in C : \A x \in C : e <= x

NoMatch == [found |-> FALSE, from |-> 0, to |-> 0, end |-> 0]

\* /<tool_call>\s*(\{[\s\S]*?\})\s*<\/tool_call>/ anchored at position i:
\* the capture group is t[from..to], the match ends at end
MatchAt(t, i) ==
  IF t[i] # "OPEN" THEN NoMatch
  ELSE LET j == SkipWs(t, i + 1)
       IN IF j > Len(t) \/ ~StartsWithBrace(t[j]) THEN NoMatch
          ELSE LET e == LazyEnd(t, j)
               IN IF e = 0 THEN NoMatch
                  ELSE [found |-> TRUE, from |-> j, to |-> e,
                        end |-> SkipWs(t, e + 1)]

\* while ((match = regex.exec(text)) !== null): the matches from position
\* p on, leftmost first, each search resuming after the previous match
RECURSIVE ExecAll(_, _)
ExecAll(t, p) ==
  LET starts == {i \in p..Len(t) : MatchAt(t, i).found}
  IN IF starts = {} THEN <<>>
     ELSE LET i == CHOOSE x \in starts : \A y \in starts : x <= y
              m == MatchAt(t, i)
          IN <<m>> \o ExecAll(t, m.end + 1)

\* JSON.parse(match[1]) succeeds: the group is the text of one JSON object
JsonParses(t, m) == m.from = m.to /\ t[m.from] \in JsonObjects

\* the parsed object's name and arguments
ToolName(tok) ==
  IF tok \in {"J1", "JNoArgs"} THEN "tool1"
  ELSE IF tok = "J2" THEN "tool2"
  ELSE "undefined"

ToolArguments(tok) ==
  IF tok \in {"J1", "JNoName"} THEN "args1"
  ELSE IF tok = "J2" THEN "args2"
  ELSE "undefined"

\* JSON.stringify and JSON.parse of an arguments value: JSON.stringify
\* of undefined is undefined and not a string, and JSON.parse of it throws
\* a SyntaxError
JsonStringify(v) == [json |-> v, string |-> v # "undefined"]

JsonParse(str) == str.json

JsonParseThrows(str) == ~str.string

\* text.replace(/<tool_call>[\s\S]*?<\/tool_call>/g, ''): each delimiter
\* that has a closing delimiter after it is removed up to the first one
RECURSIVE StripSpans(_, _)
StripSpans(t, p) ==
  LET opens == {i \in p..Len(t) :
                  t[i] = "OPEN" /\ \E c \in (i + 1)..Len(t) : t[c] = "CLOSE"}
  IN IF opens = {} THEN SubSeq(t, p, Len(t))
     ELSE LET i == CHOOSE x \in opens : \A y \in opens : x <= y
              c == CHOOSE x \in (i + 1)..Len(t) :
                     /\ t[x] = "CLOSE"
                     /\ \A y \in (i + 1)..(x - 1) : t[y] # "CLOSE"
          IN SubSeq(t, p, i - 1) \o StripSpans(t, c + 1)

\* String.prototype.trim
RECURSIVE Trim(_)
Trim(t) ==
  IF t = <<>> THEN t
  ELSE IF Head(t) = "WS" THEN Trim(Tail(t))
  ELSE IF t[Len(t)] = "WS" THEN Trim(SubSeq(t, 1, Len(t) - 1))
  ELSE t

\* `call_${Date.now()}_${Math.random().toString(36).substr(2, 9)}`: the
\* clock reading and the random suffix of one synthesized id
SynthId(stamp) == [src |-> "call_", ms |-> stamp.ms, rnd |-> stamp.rnd]

\* native ids replaced by one made-up id
NativeId_Constant(v) == [src |-> "call_", ms |-> 0, rnd |-> "r1"]

\* the ids of a provider's native tool calls are copied as they are
NativeId(v) == [src |-> "native", ms |-> 0, rnd |-> v]

\* the toolCalls array: one entry per match whose group parses, the k-th
\* entry taking the k-th clock reading and random draw
RECURSIVE PushCalls(_, _, _, _)
PushCalls(t, ms, k, stamps) ==
  IF ms = <<>> THEN <<>>
  ELSE IF JsonParses(t, Head(ms))
       THEN <<[id |-> SynthId(stamps[k]),
               name |-> ToolName(t[Head(ms).from]),
               arguments |-> JsonStringify(ToolArguments(t[Head(ms).from]))]>>
              \o PushCalls(t, Tail(ms), k + 1, stamps)
       ELSE PushCalls(t, Tail(ms), k, stamps)

\* parseToolCalls(text)
parseToolCalls(t, stamps) ==
  [toolCalls |-> PushCalls(t, ExecAll(t, 1), 1, stamps),
   cleanedText |-> Trim(StripSpans(t, 1))]

\* ------------------------------------------------------ response translator
NoId == [src |-> "", ms |-> 0, rnd |-> ""]

TextBlock(text) ==
  [type |-> "text", text |-> text, id |-> NoId, name |-> "", input |-> ""]

ToolUseBlock(id, name, input) ==
  [type |-> "tool_use", text |-> <<>>, id |-> id, name |-> name,
   input |-> input]

\* a mapping that knows two stop reasons only
StopReason_TwoValued(fr) ==
  IF fr = "tool_calls" THEN "tool_use" ELSE "end_turn"

\* finish_reason === 'tool_calls' ? 'tool_use' : finish_reason === 'stop' ?
\* 'end_turn' : finish_reason || 'end_turn'; "" stands for every falsy
\* finish_reason (undefined, null, the empty string)
StopReason(fr) ==
  IF fr = "tool_calls" THEN "tool_use"
  ELSE IF fr = "stop" THEN "end_turn"
  ELSE IF fr = "" THEN "end_turn"
  ELSE fr

\* the tool_use blocks of the emulated path, last call first
EmulatedToolUse_Reversed(calls) ==
  [k \in 1..Len(calls) |->
     ToolUseBlock(calls[Len(calls) + 1 - k].id, calls[Len(calls) + 1 - k].name,
                  JsonParse(calls[Len(calls) + 1 - k].arguments))]

\* the tool_use blocks of the emulated path
EmulatedToolUse(calls) ==
  [k \in 1..Len(calls) |->
     ToolUseBlock(calls[k].id, calls[k].name, JsonParse(calls[k].arguments))]

\* the tool_use blocks of the native path: id: call.id
NativeToolUse(calls) ==
  [k \in 1..Len(calls) |->
     ToolUseBlock(NativeId(calls[k].id), calls[k].name,
                  JsonParse(calls[k].arguments))]

\* openaiToAnthropic(openaiResponse, emulateTools); resp.content is <<>>
\* for an absent or empty content, resp.tool_calls <<>> for an absent one
openaiToAnthropic(resp, emulateTools, stamps) ==
  IF ~resp.choice
  THEN [content |-> <<TextBlock(<<"No response generated">>)>>,
        stop_reason |-> "end_turn"]
  ELSE
    LET parsed == parseToolCalls(resp.content, stamps)
        blocks ==
          IF emulateTools /\ resp.content # <<>>
          THEN (IF parsed.cleanedText # <<>>
                THEN <<TextBlock(parsed.cleanedText)>> ELSE <<>>)
                 \o EmulatedToolUse(parsed.toolCalls)
          ELSE (IF resp.content # <<>>
                THEN <<TextBlock(resp.content)>> ELSE <<>>)
                 \o NativeToolUse(resp.tool_calls)
    IN [content |-> IF Len(blocks) > 0 THEN blocks ELSE <<TextBlock(<<>>)>>,
        stop_reason |-> StopReason(resp.finish_reason)]

\* openaiToAnthropic throws: a JSON.parse(call.function.arguments) of the
\* path taken does
openaiToAnthropicThrows(resp, emulateTools, stamps) ==
  /\ resp.choice
  /\ LET calls == IF emulateTools /\ resp.content # <<>>
                  THEN parseToolCalls(resp.content, stamps).toolCalls
                  ELSE resp.tool_calls
     IN \E k \in 1..Len(calls) : JsonParseThrows(calls[k].arguments)

\* Date.now() and Math.random() as read by one parseToolCalls call: the
\* clock never goes back, the random suffixes are arbitrary
ClockReadings == {0, 1}
RandomSuffixes == {"r1", "r2"}

Stamps(n) ==
  {st \in [1..n -> [ms : ClockReadings, rnd : RandomSuffixes]] :
     \A i \in 1..n, j \in 1..n : i <= j => st[i].ms <= st[j].ms}

\* the number of ids a text makes parseToolCalls draw
IdsDrawn(t) ==
  Cardinality({k \in 1..Len(ExecAll(t, 1)) : JsonParses(t, ExecAll(t, 1)[k])})

\* parseToolCalls is called on an assistant text
CallParseToolCalls ==
  /\ call.fn = "parseToolCalls"
  /\ ret.fn = "none"
  /\ \E st \in Stamps(IdsDrawn(call.text)) :
       LET out == parseToolCalls(call.text, st)
       IN ret' = [fn |-> "parseToolCalls", toolCalls |-> out.toolCalls,
                  cleanedText |-> out.cleanedText]
  /\ UNCHANGED <<call, rlVars, cmVars, hxVars, rtVars>>

\* openaiToAnthropic is called on an upstream response
CallOpenaiToAnthropic ==
  /\ call.fn = "openaiToAnthropic"
  /\ ret.fn = "none"
  /\ \E st \in Stamps(IdsDrawn(call.resp.content)) :
       LET out == openaiToAnthropic(call.resp, call.emulateTools, st)
       IN ret' = [fn |-> "openaiToAnthropic", content |-> out.content,
                  stop_reason |-> out.stop_reason]
  /\ UNCHANGED <<call, rlVars, cmVars, hxVars, rtVars>>

\* The assistant texts and upstream responses the decoder is run on.
RECURSIVE SeqsUpTo(_, _)
SeqsUpTo(S, n) ==
  IF n = 0 THEN {<<>>}
  ELSE LET shorter == SeqsUpTo(S, n - 1)
       IN shorter \cup {Append(q, x) : q \in shorter, x \in S}

RECURSIVE Flatten(_)
Flatten(ss) == IF ss = <<>> THEN <<>> ELSE Head(ss) \o Flatten(Tail(ss))

ParseTokens == TextTokens \ {"J2", "JNoArgs", "JNoName"}

Segments ==
  { <<"TXT">>, <<"OPEN", "J1", "CLOSE">>, <<"OPEN", "J2", "CLOSE">>,
    <<"OPEN", "BAD", "CLOSE">> }

ResponseTexts == {Flatten(ss) : ss \in SeqsUpTo(Segments, MaxSegments)}

NativeCalls ==
  [id : {"call_a", "call_b"}, name : {"tool1", "tool2"},
   arguments : {JsonStringify("args1")}]

FinishReasons == {"tool_calls", "stop", "length", "content_filter", ""}

UpstreamResponses ==
  [choice : {TRUE}, content : ResponseTexts,
   tool_calls : SeqsUpTo(NativeCalls, MaxNativeCalls),
   finish_reason : FinishReasons]
  \cup [choice : {FALSE}, content : {<<>>}, tool_calls : {<<>>},
        finish_reason : {""}]

DecodeInit ==
  /\ RateLimiterInit
  /\ NoCompaction
  /\ call \in [fn : {"parseToolCalls"}, text : SeqsUpTo(ParseTokens, MaxTextLen)]
              \cup [fn : {"openaiToAnthropic"}, resp : UpstreamResponses,
                    emulateTools : BOOLEAN]
  /\ ret = [fn |-> "none"]
  /\ NoExchange
  /\ NoRetry

DecodeNext == CallParseToolCalls \/ CallOpenaiToAnthropic

DecodeSpec == DecodeInit /\ [][DecodeNext]_vars

\* -------------------------------------------------------- model dispatcher
\* A model string is a sequence of atoms: a provider name, "/", a line
\* break "\n", or a piece of a model name; s includes k when k is a run of
\* consecutive atoms of s.
DefaultModel == <<"claude-sonnet-4-5", "-20250929">>

\* a pattern whose . also matches line breaks
parseModel_DotAll(modelString) ==
  IF modelString = <<>>
  THEN [provider |-> "anthropic", model |-> DefaultModel]
  ELSE IF /\ Len(modelString) >= 2
          /\ modelString[1] \in Providers
          /\ modelString[2] = "/"
       THEN [provider |-> modelString[1],
             model |-> SubSeq(modelString, 3, Len(modelString))]
       ELSE [provider |-> "anthropic", model |-> modelString]

\* parseModel(modelString): a falsy modelString gives the default model;
\* /^(glm|featherless|google|anthropic)\/(.*)$/ gives its two groups, and .
\* matches no line break; anything else goes to anthropic as it is
parseModel(modelString) ==
  IF modelString = <<>>
  THEN [provider |-> "anthropic", model |-> DefaultModel]
  ELSE IF /\ Len(modelString) >= 2
          /\ modelString[1] \in Providers
          /\ modelString[2] = "/"
          /\ \A i \in 3..Len(modelString) : modelString[i] # "\n"
       THEN [provider |-> modelString[1],
             model |-> SubSeq(modelString, 3, Len(modelString))]
       ELSE [provider |-> "anthropic", model |-> modelString]

\* String.prototype.includes
Includes(str, k) ==
  \E i \in 0..(Len(str) - Len(k)) : SubSeq(str, i + 1, i + Len(k)) = k

NATIVE_TOOL_CALLING_MODELS ==
  << <<"glm-4">>, <<"glm-4", "-plus">>, <<"gemini-pro">>,
     <<"gemini-1.5-pro">>, <<"gemini-2.0-flash">> >>

\* a table that takes every glm model for native
supportsNativeToolCalling_AllGlm(provider, model) ==
  provider \in {"anthropic", "google", "glm"}

\* supportsNativeToolCalling(provider, model)
supportsNativeToolCalling(provider, model) ==
  IF provider = "anthropic" THEN TRUE
  ELSE IF provider = "google" THEN TRUE
  ELSE IF provider = "featherless" THEN FALSE
  ELSE IF provider = "glm"
       THEN \E k \in 1..Len(NATIVE_TOOL_CALLING_MODELS) :
              Includes(model, NATIVE_TOOL_CALLING_MODELS[k])
  ELSE FALSE

MODEL_LIMITS ==
  << [key |-> <<"glm-4", ".7">>, limit |-> 8192],
     [key |-> <<"glm-4">>, limit |-> 8192],
     [key |-> <<"glm-4", "-plus">>, limit |-> 8192],
     [key |-> <<"glm-4", "-air">>, limit |-> 8192],
     [key |-> <<"dphn", "/", "Dolphin-Mistral-24B-Venice-Edition">>,
      limit |-> 4096],
     [key |-> <<"huihui-ai", "/", "Qwen2.5-72B-Instruct-abliterated">>,
      limit |-> 4096],
     [key |-> <<"WhiteRabbitNeo", "/", "WhiteRabbitNeo", "-V3-7B">>,
      limit |-> 4096],
     [key |-> <<"mlabonne", "/", "Meta-Llama-3.1-8B-Instruct-abliterated">>,
      limit |-> 4096],
     [key |-> <<"huihui-ai", "/", "Llama-3.3-70B-Instruct-abliterated">>,
      limit |-> 4096],
     [key |-> <<"gemini-pro">>, limit |-> 8192],
     [key |-> <<"gemini-1.5-pro">>, limit |-> 8192],
     [key |-> <<"gemini-2.0-flash">>, limit |-> 8192],
     [key |-> <<"gemini-2.0-flash", "-exp">>, limit |-> 8192],
     [key |-> <<"claude-opus-4-5">>, limit |-> 8192],
     [key |-> <<"claude-4.5-opus-20251101">>, limit |-> 8192],
     [key |-> <<"claude-sonnet-4-5">>, limit |-> 8192],
     [key |-> <<"claude-4.5-sonnet-20251001">>, limit |-> 8192],
     [key |-> <<"claude-haiku-4-5">>, limit |-> 8192],
     [key |-> <<"claude-haiku-4-5", "-20250919">>, limit |-> 8192],
     [key |-> <<"default">>, limit |-> 4096] >>

DefaultModelLimit == MODEL_LIMITS[Len(MODEL_LIMITS)].limit

\* modelName.split('/').pop()
RECURSIVE AfterLastSlash(_)
AfterLastSlash(str) ==
  IF \A i \in 1..Len(str) : str[i] # "/" THEN str
  ELSE AfterLastSlash(Tail(str))

\* getModelLimit(modelName): the exact key, else the first key that
\* includes the name or is included in it, else the default
getModelLimit(modelName) ==
  LET cleanModel == AfterLastSlash(modelName)
      exact == {k \in 1..Len(MODEL_LIMITS) : MODEL_LIMITS[k].key = cleanModel}
      partial == {k \in 1..Len(MODEL_LIMITS) :
                    \/ Includes(cleanModel, MODEL_LIMITS[k].key)
                    \/ Includes(MODEL_LIMITS[k].key, cleanModel)}
  IN IF exact # {} THEN MODEL_LIMITS[CHOOSE k \in exact : TRUE].limit
     ELSE IF partial # {}
          THEN MODEL_LIMITS[CHOOSE k \in partial :
                              \A x \in partial : k <= x].limit
          ELSE DefaultModelLimit

\* ------------------------------------------------------- request translator
\* A unified message is [role, content]; content is [kind |-> "string",
\* text, blocks] or [kind |-> "array", ...] or of another kind (absent).
\* A block is [type, text, id, name].  A string is a sequence of pieces;
\* '' is <<>>.  Every provider-native entry carries in `from` the position
\* of the message it was made from (0: the system entry), which the code
\* does not store.
Entry(role, content, images, toolCallId, name, from) ==
  [role |-> role, content |-> content, images |-> images,
   tool_call_id |-> toolCallId, name |-> name, from |-> from]

\* Array.prototype.join
RECURSIVE Join(_, _)
Join(strs, sep) ==
  IF strs = <<>> THEN <<>>
  ELSE IF Len(strs) = 1 THEN Head(strs)
  ELSE Head(strs) \o <<sep>> \o Join(Tail(strs), sep)

\* textBlocks: the text of each text block and `[Tool: ${block.name}]` for
\* each tool_use block
RECURSIVE textBlocks(_)
textBlocks(blocks) ==
  IF blocks = <<>> THEN <<>>
  ELSE LET b == Head(blocks)
       IN (IF b.type = "text" THEN << <<b.text>> >>
           ELSE IF b.type = "tool_use" THEN << <<"[Tool: ", b.name, "]">> >>
           ELSE <<>>) \o textBlocks(Tail(blocks))

\* toolResults: one role 'tool' entry per tool_result block
RECURSIVE toolResults(_, _)
toolResults(blocks, from) ==
  IF blocks = <<>> THEN <<>>
  ELSE LET b == Head(blocks)
       IN (IF b.type = "tool_result"
           THEN <<Entry("tool", <<b.text>>, 0, b.id,
                        IF b.name = "" THEN "unknown" ELSE b.name, from)>>
           ELSE <<>>) \o toolResults(Tail(blocks), from)

CountImages(blocks) ==
  Cardinality({k \in 1..Len(blocks) : blocks[k].type = "image"})

\* a translation that leaves out the entry of a message without text
EntriesOf_SkipEmpty(msg, from) ==
  IF msg.content.kind = "string"
  THEN <<Entry(msg.role, msg.content.text, 0, "", "", from)>>
  ELSE IF msg.content.kind = "array"
  THEN (IF textBlocks(msg.content.blocks) = <<>> THEN <<>>
        ELSE <<Entry(msg.role, Join(textBlocks(msg.content.blocks), "\n"),
                     CountImages(msg.content.blocks), "", "", from)>>)
         \o toolResults(msg.content.blocks, from)
  ELSE <<>>

\* the body of anthropicToOpenAI's message loop: the entry of the message,
\* then its tool entries
EntriesOf(msg, from) ==
  IF msg.content.kind = "string"
  THEN <<Entry(msg.role, msg.content.text, 0, "", "", from)>>
  ELSE IF msg.content.kind = "array"
  THEN <<Entry(msg.role, Join(textBlocks(msg.content.blocks), "\n"),
               CountImages(msg.content.blocks), "", "", from)>>
         \o toolResults(msg.content.blocks, from)
  ELSE <<Entry(msg.role, <<>>, 0, "", "", from)>>

RECURSIVE ConvertMessages(_, _)
ConvertMessages(msgs, from) ==
  IF msgs = <<>> THEN <<>>
  ELSE EntriesOf(Head(msgs), from) \o ConvertMessages(Tail(msgs), from + 1)

\* injectToolsIntoPrompt(systemPrompt, tools)
injectToolsIntoPrompt(systemPrompt, tools) ==
  IF tools = <<>> THEN systemPrompt
  ELSE systemPrompt \o <<"\n\n", "TOOLCATALOG">>

\* a translation that forwards max_tokens as requested
cappedTokens_Uncapped(requested, modelLimit) ==
  IF requested = 0 THEN CheckDefaultMaxTokens ELSE requested

\* Math.min(anthropicBody.max_tokens || 4096, modelLimit); 0: absent
cappedTokens(requested, modelLimit) ==
  Min(IF requested = 0 THEN CheckDefaultMaxTokens ELSE requested, modelLimit)

\* anthropicToOpenAI(anthropicBody, emulateTools); body.tools is [present,
\* list]
anthropicToOpenAI(body, emulateTools) ==
  LET hasTools == body.tools.present /\ Len(body.tools.list) > 0
      systemContent == IF emulateTools /\ hasTools
                       THEN injectToolsIntoPrompt(body.system, body.tools.list)
                       ELSE body.system
  IN [messages |-> (IF systemContent # <<>>
                    THEN <<Entry("system", systemContent, 0, "", "", 0)>>
                    ELSE <<>>) \o ConvertMessages(body.messages, 1),
      max_tokens |-> cappedTokens(body.max_tokens, getModelLimit(body.model)),
      tools |-> IF ~emulateTools /\ hasTools THEN body.tools.list ELSE <<>>]

\* ------------------------------------------------- handlers: request build
\* What each provider handler hands to makeRequest for a body, credentials
\* being configured and the context within its limit.  form tells the shape
\* of the outbound messages: OpenAI entries, Google contents, or the
\* unified messages passed through.
Outbound(provider, model, form, emulate, entries, msgs, maxTok, tools) ==
  [provider |-> provider, model |-> model, form |-> form,
   emulateTools |-> emulate, entries |-> entries,
   messages |-> msgs, max_tokens |-> maxTok, tools |-> tools]

\* handleGLM: emulateTools = !supportsNativeToolCalling('glm', model) &&
\* anthropicBody.tools
handleGLM(body) ==
  LET model == parseModel(body.model).model
      emulateTools == ~supportsNativeToolCalling("glm", model)
                        /\ body.tools.present
      openaiBody == anthropicToOpenAI(body, emulateTools)
  IN Outbound("glm", model, "openai", emulateTools, openaiBody.messages,
              <<>>, openaiBody.max_tokens, openaiBody.tools)

\* handleFeatherless: emulateTools = workingBody.tools &&
\* workingBody.tools.length > 0
handleFeatherless(body) ==
  LET model == parseModel(body.model).model
      emulateTools == body.tools.present /\ Len(body.tools.list) > 0
      openaiBody == anthropicToOpenAI(body, emulateTools)
  IN Outbound("featherless", model, "openai", emulateTools,
              openaiBody.messages, <<>>, openaiBody.max_tokens,
              openaiBody.tools)

\* handleGoogle's contents: each entry becomes {role, parts}; only its text
\* and images are kept
GoogleContent(e) ==
  Entry(IF e.role = "assistant" THEN "model" ELSE "user", e.content,
        e.images, "", "", e.from)

\* handleGoogle: anthropicToOpenAI(anthropicBody, false), then contents and
\* generationConfig.maxOutputTokens; no tools field is sent
handleGoogle(body) ==
  LET model == parseModel(body.model).model
      openaiBody == anthropicToOpenAI(body, FALSE)
  IN Outbound("google", model, "google", FALSE,
              [k \in 1..Len(openaiBody.messages) |->
                 GoogleContent(openaiBody.messages[k])],
              <<>>, openaiBody.max_tokens, <<>>)

\* handleAnthropic: the body is forwarded as received, model name replaced
handleAnthropic(body) ==
  Outbound("anthropic", parseModel(body.model).model, "anthropic", FALSE,
           <<>>, body.messages, body.max_tokens,
           IF body.tools.present THEN body.tools.list ELSE <<>>)

\* handleRequest's switch on the provider of the body's model
handleRequest(body) ==
  LET provider == parseModel(body.model).provider
  IN IF provider = "glm" THEN handleGLM(body)
     ELSE IF provider = "featherless" THEN handleFeatherless(body)
     ELSE IF provider = "google" THEN handleGoogle(body)
     ELSE handleAnthropic(body)

\* parseModel is called on a model string
CallParseModel ==
  /\ call.fn = "parseModel"
  /\ ret.fn = "none"
  /\ LET out == parseModel(call.model)
     IN ret' = [fn |-> "parseModel", provider |-> out.provider,
                model |-> out.model]
  /\ UNCHANGED <<call, rlVars, cmVars, hxVars, rtVars>>

\* A body reaches its provider's handler, which builds the outbound request
CallHandleRequest ==
  /\ call.fn = "handleRequest"
  /\ ret.fn = "none"
  /\ ret' = [fn |-> "handleRequest", out |-> handleRequest(call.body)]
  /\ UNCHANGED <<call, rlVars, cmVars, hxVars, rtVars>>

\* The model strings, conversations and bodies the translator is run on.
ModelAtoms ==
  {"glm", "featherless", "google", "anthropic", "openai", "/", "\n", "glm-4"}

TextContent == [kind |-> "string", text |-> <<"S">>, blocks |-> <<>>]
Blocks(bs) == [kind |-> "array", text |-> <<>>, blocks |-> bs]
AbsentContent == [kind |-> "absent", text |-> <<>>, blocks |-> <<>>]

Text == [type |-> "text", text |-> "T", id |-> "", name |-> ""]
Image == [type |-> "image", text |-> "", id |-> "", name |-> ""]
ToolUse(id) == [type |-> "tool_use", text |-> "", id |-> id, name |-> "Read"]
ToolResultOf(id) ==
  [type |-> "tool_result", text |-> "R", id |-> id, name |-> ""]

MessageShapes ==
  { [role |-> "user", content |-> TextContent],
    [role |-> "assistant", content |-> TextContent],
    [role |-> "assistant", content |-> Blocks(<<Text, ToolUse("toolu_1")>>)],
    [role |-> "assistant",
     content |-> Blocks(<<ToolUse("toolu_1"), ToolUse("toolu_2")>>)],
    [role |-> "user", content |-> Blocks(<<ToolResultOf("toolu_1")>>)],
    [role |-> "user",
     content |-> Blocks(<<ToolResultOf("toolu_1"), ToolResultOf("toolu_2")>>)],
    [role |-> "user", content |-> Blocks(<<ToolResultOf("toolu_1"), Text>>)],
    [role |-> "user", content |-> Blocks(<<Image, Text>>)],
    [role |-> "user", content |-> AbsentContent] }

ToolLists ==
  { [present |-> FALSE, list |-> <<>>], [present |-> TRUE, list |-> <<>>],
    [present |-> TRUE, list |-> <<"Read">>] }

ModelStrings ==
  { <<"glm", "/", "glm-4", ".7">>, <<"glm", "/", "glm-4">>,
    <<"glm", "/", "glm-4", "-plus">>, <<"glm", "/", "chatglm">>,
    <<"featherless", "/", "huihui-ai", "/",
      "Llama-3.3-70B-Instruct-abliterated">>,
    <<"featherless", "/", "org", "/", "model-name">>,
    <<"google", "/", "gemini-2.0-flash", "-exp">>,
    <<"google", "/", "gemini-pro">>,
    <<"anthropic", "/", "claude-sonnet-4-5", "-20250929">>,
    <<"claude-sonnet-4-5">>, <<"openai", "/", "gpt-4">>, <<>> }

MaxTokensValues == {0, 1024, 4096, 4097, 8192, 8193, 100000}

ConversationModels ==
  { <<"glm", "/", "glm-4">>, <<"glm", "/", "chatglm">>,
    <<"featherless", "/", "org", "/", "model-name">>,
    <<"google", "/", "gemini-pro">>, <<"claude-sonnet-4-5">> }

Bodies ==
  [model : ConversationModels, system : {<<>>, <<"SYS">>},
   tools : {t \in ToolLists : t.present => t.list # <<>>},
   max_tokens : {0}, messages : SeqsUpTo(MessageShapes, MaxMsgs)]
  \cup [model : ModelStrings, system : {<<>>, <<"SYS">>}, tools : ToolLists,
        max_tokens : MaxTokensValues,
        messages : {<<[role |-> "user", content |-> TextContent]>>}]

TranslateInit ==
  /\ RateLimiterInit
  /\ NoCompaction
  /\ call \in [fn : {"parseModel"}, model : SeqsUpTo(ModelAtoms, MaxModelLen)]
              \cup [fn : {"handleRequest"}, body : Bodies]
  /\ ret = [fn |-> "none"]
  /\ NoExchange
  /\ NoRetry

TranslateNext == CallParseModel \/ CallHandleRequest

TranslateSpec == TranslateInit /\ [][TranslateNext]_vars

\* ------------------------------------------------------ Featherless handler
\* handleFeatherless after the recheck: the request goes on to admission
\* when either check passed, else the handler answers 400
\* context_length_exceeded and returns.
ContextGate_NoReturn(ok, recheck) == "proceed"

\* handleFeatherless: if (!contextCheck.ok) {...; if (!recheckContext.ok)
\* {...; return;} }
ContextGate(ok, recheck) == IF ok \/ recheck THEN "proceed" ELSE "ctxerror"

\* handleFeatherless from its entry to its first await: the context check,
\* one applyCompaction when the check fails, the recheck, then either the
\* 400 context_length_exceeded answer or waitForToken's first iteration.
\* The working body is a local of the handler; the model follows one body
\* at a time.
FeatherlessArrive(r, t) ==
  /\ \A q \in Req : pc[q] = "idle"
  /\ LET ok == checkContextLimit(cmOrig, cmSystem, cmMaxTokens, cmLimit)
         res == compactMessages(cmOrig, cmSystem, cmMaxTokens, cmLimit,
                                cmConfig)
         working == IF ok THEN cmOrig ELSE res.messages
         recheck == checkContextLimit(working, cmSystem, cmMaxTokens,
                                      cmLimit)
     IN /\ cmPrev' = IF ok THEN <<>> ELSE cmOrig
        /\ cmBody' = working
        /\ cmResult' = IF ok THEN NoResult
                       ELSE [compacted |-> res.compacted,
                             original |-> res.original, final |-> res.final,
                             removed |-> res.removed,
                             finalTokens |-> res.finalTokens]
        /\ cmPasses' = IF ok THEN 0 ELSE 1
        /\ IF ContextGate(ok, recheck) = "proceed"
           THEN /\ prov' = [prov EXCEPT ![r] = "featherless"]
                /\ startTime' = [startTime EXCEPT ![r] = now]
                /\ timeoutOf' = [timeoutOf EXCEPT ![r] = t]
                /\ Poll(r, "featherless", now, t)
           ELSE /\ pc' = [pc EXCEPT ![r] = "ctxerror"]
                /\ prov' = [prov EXCEPT ![r] = "featherless"]
                /\ UNCHANGED <<buckets, lastRefill, startTime, timeoutOf,
                               lastPoll, granted, admittedCount,
                               emptyRefill>>
  /\ UNCHANGED <<now, limits, outbound>>
  /\ UNCHANGED <<cmConfig, cmLimit, cmSystem, cmMaxTokens, cmOrig>>
  /\ UNCHANGED <<fnVars, rtVars, hxVars>>

\* The request bodies the Featherless handler is run on.
FeatherlessKinds == {SmallUser, BigAssistant, HugeUser}

FeatherlessInit ==
  /\ RateLimiterInit
  /\ cmConfig \in {c \in CompactionConfigs : c.tailReserve = 2}
  /\ cmLimit = DefaultContextLimit
  /\ cmSystem = 0
  /\ cmMaxTokens \in {0, 4096}
  /\ \E n \in 0..(cmConfig.tailReserve + MaxExtra) :
       \E f \in [1..n -> FeatherlessKinds] : cmOrig = WithIds(f)
  /\ cmPrev = <<>>
  /\ cmBody = cmOrig
  /\ cmResult = NoResult
  /\ cmPasses = 0
  /\ NoCall
  /\ NoExchange
  /\ NoRetry

FeatherlessNext ==
  \/ \E r \in Req, t \in Timeouts : FeatherlessArrive(r, t)
  \/ \E r \in Req : Wake(r)
  \/ \E r \in Req : Send(r)
  \/ \E r \in Req : Respond(r)
  \/ \E r \in Req : Finish(r)
  \/ \E d \in Deltas : Tick(d)

FeatherlessSpec == FeatherlessInit /\ [][FeatherlessNext]_vars

\* ------------------------------------------------- handleRequest, end to end
\* The context window of a model (MODEL_CONTEXT_LIMITS), keys as atoms.
MODEL_CONTEXT_LIMITS ==
  << [key |-> <<"glm-4", ".7">>, limit |-> 131072],
     [key |-> <<"glm-4">>, limit |-> 131072],
     [key |-> <<"glm-4", "-plus">>, limit |-> 131072],
     [key |-> <<"glm-4", "-air">>, limit |-> 131072],
     [key |-> <<"dphn", "/", "Dolphin-Mistral-24B-Venice-Edition">>,
      limit |-> 32768],
     [key |-> <<"huihui-ai", "/", "Qwen2.5-72B-Instruct-abliterated">>,
      limit |-> 32768],
     [key |-> <<"WhiteRabbitNeo", "/", "WhiteRabbitNeo", "-V3-7B">>,
      limit |-> 8192],
     [key |-> <<"mlabonne", "/", "Meta-Llama-3.1-8B-Instruct-abliterated">>,
      limit |-> 8192],
     [key |-> <<"huihui-ai", "/", "Llama-3.3-70B-Instruct-abliterated">>,
      limit |-> 131072],
     [key |-> <<"gemini-pro">>, limit |-> 32768],
     [key |-> <<"gemini-1.5-pro">>, limit |-> 1048576],
     [key |-> <<"gemini-2.0-flash">>, limit |-> 1048576],
     [key |-> <<"gemini-2.0-flash", "-exp">>, limit |-> 1048576],
     [key |-> <<"claude-opus-4-5">>, limit |-> 200000],
     [key |-> <<"claude-4.5-opus-20251101">>, limit |-> 200000],
     [key |-> <<"claude-sonnet-4-5">>, limit |-> 200000],
     [key |-> <<"claude-4.5-sonnet-20251001">>, limit |-> 200000],
     [key |-> <<"claude-haiku-4-5">>, limit |-> 200000],
     [key |-> <<"claude-haiku-4-5", "-20250919">>, limit |-> 200000],
     [key |-> <<"default">>, limit |-> 8192] >>

\* getContextLimit(modelName): the exact key, else the first key that
\* includes the name or is included in it, else the default
getContextLimit(modelName) ==
  LET cleanModel == AfterLastSlash(modelName)
      T == MODEL_CONTEXT_LIMITS
      exact == {k \in 1..Len(T) : T[k].key = cleanModel}
      partial == {k \in 1..Len(T) : \/ Includes(cleanModel, T[k].key)
                                    \/ Includes(T[k].key, cleanModel)}
  IN IF exact # {} THEN T[CHOOSE k \in exact : TRUE].limit
     ELSE IF partial # {}
          THEN T[CHOOSE k \in partial : \A x \in partial : k <= x].limit
          ELSE T[Len(T)].limit

\* The error types the handlers write.
ErrorTypes ==
  {"rate_limit_error", "authentication_error", "api_error",
   "invalid_request_error", "context_length_exceeded"}

\* res.writeHead(status); res.end(JSON.stringify({type: 'error',
\* error: {type, message}}))
ErrorResponse(status, type) ==
  [status |-> status, origin |-> "proxy",
   body |-> [type |-> "error",
             error |-> [type |-> type, message |-> "message"]]]

\* handleRequest's answer to a URL without /v1/messages:
\* res.writeHead(404); res.end(JSON.stringify({ error: 'Not found' }))
NotFoundResponse ==
  [status |-> 404, origin |-> "proxy", body |-> [error |-> "Not found"]]

\* res.writeHead(200); res.end() for OPTIONS
PreflightResponse ==
  [status |-> 200, origin |-> "proxy", body |-> [empty |-> TRUE]]

\* handleModelsList's answer
ModelsResponse ==
  [status |-> 200, origin |-> "proxy", body |-> [object |-> "list"]]

\* res.writeHead(200); res.end(JSON.stringify(anthropicResponse))
MessageResponse ==
  [status |-> 200, origin |-> "proxy", body |-> [type |-> "message"]]

\* res.writeHead(response.status); res.end(response.body)
PassThrough(status) ==
  [status |-> status, origin |-> "upstream", body |-> [raw |-> "upstream"]]

\* a catch around waitForToken that returns without writing
AdmissionAnswer_Silent(at) == NoResponse

\* a catch around waitForToken that answers like the catch around
\* makeRequest
AdmissionAnswer_ServerError(at) ==
  IF at = "rejected" THEN ErrorResponse(500, "api_error")
  ELSE NoResponse

\* What a handler writes when waitForToken's promise settles: nothing yet
\* when it resolved (or is pending), the 429 answer when it rejected.
AdmissionAnswer(at) ==
  IF at = "rejected" THEN ErrorResponse(429, "rate_limit_error")
  ELSE NoResponse

\* a handler that does not look at its credentials
HasCredentials_Unchecked(p, keys) == TRUE

\* The credential check at the head of a handler: handleGLM has none;
\* the others answer 401 without it.
HasCredentials(p, keys) == p = "glm" \/ p \in keys

\* A handler that enters admission first and re-enters it after its other
\* stages.
StagesBeforeAdmission_AdmitFirst(p, compacts) ==
  IF p = "anthropic" THEN <<"credentials">>
  ELSE <<"admission", "translation">>

\* The stages a handler runs from its entry up to waitForToken, in the
\* order of its statements.
StagesBeforeAdmission(p, compacts) ==
  IF p = "glm" THEN <<"translation">>
  ELSE IF p = "featherless"
       THEN <<"credentials">>
            \o (IF compacts THEN <<"compaction">> ELSE <<>>)
            \o <<"translation">>
       ELSE IF p = "google" THEN <<"credentials", "translation">>
            ELSE <<"credentials">>

\* The body a handler works on after its context handling: only
\* handleFeatherless checks the estimate and compacts.
WorkingBody(p, msgs, system, maxTok, limit, config) ==
  IF p = "featherless" /\ ~checkContextLimit(msgs, system, maxTok, limit)
  THEN compactMessages(msgs, system, maxTok, limit, config).messages
  ELSE msgs

\* Whether the handler gives up on the context: only handleFeatherless
\* does, when the recheck after its one compaction still fails.
ContextRefused(p, msgs, system, maxTok, limit, config) ==
  /\ p = "featherless"
  /\ ContextGate(checkContextLimit(msgs, system, maxTok, limit),
                 checkContextLimit(WorkingBody(p, msgs, system, maxTok,
                                               limit, config),
                                   system, maxTok, limit)) = "ctxerror"

RequestKinds == {"options", "models", "other", "malformed", "messages"}

\* handleRequest from its entry up to the first response or the first
\* await that can leave the turn (waitForToken's sleep): routing by method
\* and URL, JSON.parse of the body, parseModel, then the provider's handler
\* down to waitForToken's first iteration.  keys is the set of providers
\* whose credential is available.
Dispatch(r, kind, m, keys, t) ==
  /\ pc[r] = "idle"
  /\ inbound' = [inbound EXCEPT
                   ![r] = [kind |-> kind, model |-> m, keys |-> keys]]
  /\ upstream' = upstream
  /\ UNCHANGED <<now, limits, outbound, fnVars, rtVars>>
  /\ UNCHANGED <<cmConfig, cmSystem, cmMaxTokens, cmOrig>>
  /\ IF kind # "messages"
     THEN /\ response' =
               [response EXCEPT
                  ![r] = IF kind = "options" THEN PreflightResponse
                         ELSE IF kind = "models" THEN ModelsResponse
                         ELSE IF kind = "other" THEN NotFoundResponse
                         ELSE ErrorResponse(400, "invalid_request_error")]
          /\ pc' = [pc EXCEPT ![r] = "done"]
          /\ stages' = stages
          /\ UNCHANGED <<buckets, lastRefill, prov, startTime, timeoutOf,
                         lastPoll, granted, admittedCount, emptyRefill>>
          /\ UNCHANGED <<cmLimit, cmPrev, cmBody, cmResult, cmPasses>>
     ELSE LET p == parseModel(m).provider
              limit == getContextLimit(m)
              ok == checkContextLimit(cmOrig, cmSystem, cmMaxTokens, limit)
              compacts == p = "featherless" /\ ~ok
              res == compactMessages(cmOrig, cmSystem, cmMaxTokens, limit,
                                     cmConfig)
          IN /\ InUse \subseteq {p}
             /\ prov' = [prov EXCEPT ![r] = p]
             /\ cmLimit' = limit
             /\ IF ~HasCredentials(p, keys)
                THEN /\ response' =
                          [response EXCEPT
                             ![r] = ErrorResponse(401,
                                                  "authentication_error")]
                     /\ pc' = [pc EXCEPT ![r] = "done"]
                     /\ stages' = [stages EXCEPT
                                     ![r] = <<"resolution", "credentials">>]
                     /\ UNCHANGED <<buckets, lastRefill, startTime,
                                    timeoutOf, lastPoll, granted,
                                    admittedCount, emptyRefill>>
                     /\ UNCHANGED <<cmPrev, cmBody, cmResult, cmPasses>>
                ELSE /\ cmPrev' = IF compacts THEN cmOrig ELSE <<>>
                     /\ cmBody' = WorkingBody(p, cmOrig, cmSystem,
                                              cmMaxTokens, limit, cmConfig)
                     /\ cmResult' =
                          IF compacts
                          THEN [compacted |-> res.compacted,
                                original |-> res.original,
                                final |-> res.final,
                                removed |-> res.removed,
                                finalTokens |-> res.finalTokens]
                          ELSE NoResult
                     /\ cmPasses' = IF compacts THEN 1 ELSE 0
                     /\ IF ContextRefused(p, cmOrig, cmSystem, cmMaxTokens,
                                          limit, cmConfig)
                        THEN /\ response' =
                                  [response EXCEPT
                                     ![r] = ErrorResponse(
                                              400,
                                              "context_length_exceeded")]
                             /\ pc' = [pc EXCEPT ![r] = "ctxerror"]
                             /\ stages' =
                                  [stages EXCEPT
                                     ![r] = <<"resolution", "credentials",
                                              "compaction">>]
                             /\ UNCHANGED <<buckets, lastRefill, startTime,
                                            timeoutOf, lastPoll, granted,
                                            admittedCount, emptyRefill>>
                        ELSE /\ startTime' = [startTime EXCEPT ![r] = now]
                             /\ timeoutOf' = [timeoutOf EXCEPT ![r] = t]
                             /\ Poll(r, p, now, t)
                             /\ stages' =
                                  [stages EXCEPT
                                     ![r] = <<"resolution">>
                                            \o StagesBeforeAdmission(
                                                 p, compacts)
                                            \o <<"admission">>]
                             /\ response' =
                                  [response EXCEPT
                                     ![r] = AdmissionAnswer(pc'[r])]

\* A request arrives while no other is in flight: the compaction of one
\* request is followed at a time.
ProxyArrive(r, kind, m, keys, t) ==
  /\ \A q \in Req : pc[q] = "idle"
  /\ Dispatch(r, kind, m, keys, t)

\* The poll loop's timer of a request inside a handler fires; when the
\* loop throws, the handler's catch writes the 429 answer and returns.
ProxyWake(r) ==
  /\ pc[r] = "sleeping"
  /\ now >= WakeAt(r)
  /\ Poll(r, prov[r], startTime[r], timeoutOf[r])
  /\ response' = [response EXCEPT ![r] = AdmissionAnswer(pc'[r])]
  /\ UNCHANGED <<now, limits, prov, startTime, timeoutOf, outbound>>
  /\ UNCHANGED <<cmVars, fnVars, rtVars, inbound, upstream, stages>>

\* makeRequest: the request is written to the provider and the returned
\* promise settles on the response's 'end' or the request's 'error'; no
\* timer is set on either.  Whether the provider ever answers is the
\* provider's choice s.
ProxySend(r, s) ==
  /\ pc[r] = "admitted"
  /\ pc' = [pc EXCEPT ![r] = "sending"]
  /\ outbound' = [outbound EXCEPT ![r] = TRUE]
  /\ upstream' = [upstream EXCEPT ![r] = s]
  /\ stages' = [stages EXCEPT ![r] = Append(@, "transport")]
  /\ startTime' = [startTime EXCEPT ![r] = 0]
  /\ timeoutOf' = [timeoutOf EXCEPT ![r] = 0]
  /\ lastPoll' = [lastPoll EXCEPT ![r] = 0]
  /\ UNCHANGED <<now, limits, buckets, lastRefill, prov, granted,
                 admittedCount, emptyRefill>>
  /\ UNCHANGED <<cmVars, fnVars, rtVars, inbound, response>>

\* What a handler writes once makeRequest settled with outcome o: "ok" a
\* 200 with a JSON body, "status" another status, "garbled" a 200 whose
\* body JSON.parse rejects, "neterror" the request's 'error' event.
\* handleAnthropic forwards whatever came; the others translate a 200.
Answer(p, o) ==
  IF o = "neterror" THEN ErrorResponse(500, "api_error")
  ELSE IF p = "anthropic" THEN PassThrough(IF o = "status" THEN 503 ELSE 200)
  ELSE IF o = "status" THEN PassThrough(503)
  ELSE IF o = "garbled" THEN ErrorResponse(500, "api_error")
  ELSE MessageResponse

UpstreamOutcomes == {"ok", "status", "garbled", "neterror"}

\* makeRequest's promise settles and the handler writes its response.
ProxyRespond(r, o) ==
  /\ pc[r] = "sending"
  /\ upstream[r] = "answers"
  /\ pc' = [pc EXCEPT ![r] = "done"]
  /\ response' = [response EXCEPT ![r] = Answer(prov[r], o)]
  /\ UNCHANGED <<now, limits, buckets, lastRefill, prov, startTime, timeoutOf,
                 lastPoll, granted, outbound, admittedCount, emptyRefill>>
  /\ UNCHANGED <<cmVars, fnVars, rtVars, inbound, upstream, stages>>

\* The exchange is over; its slot serves the next inbound request.
ProxyFinish(r) ==
  /\ pc[r] \in {"done", "rejected", "ctxerror"}
  /\ pc' = [pc EXCEPT ![r] = "idle"]
  /\ prov' = [prov EXCEPT ![r] = "glm"]
  /\ startTime' = [startTime EXCEPT ![r] = 0]
  /\ timeoutOf' = [timeoutOf EXCEPT ![r] = 0]
  /\ lastPoll' = [lastPoll EXCEPT ![r] = 0]
  /\ granted' = [granted EXCEPT ![r] = FALSE]
  /\ outbound' = [outbound EXCEPT ![r] = FALSE]
  /\ inbound' = [inbound EXCEPT ![r] = NoInbound]
  /\ upstream' = [upstream EXCEPT ![r] = "none"]
  /\ response' = [response EXCEPT ![r] = NoResponse]
  /\ stages' = [stages EXCEPT ![r] = <<>>]
  /\ UNCHANGED <<now, limits, buckets, lastRefill, admittedCount,
                 emptyRefill>>
  /\ UNCHANGED <<cmVars, fnVars, rtVars>>

\* The models of the inbound requests: one per provider, none of them in
\* the limit tables except the Anthropic one.
ProxyModels ==
  { <<"glm", "/", "chatglm">>, <<"featherless", "/", "org", "/", "model-name">>,
    <<"google", "/", "gemini-exp">>, <<"claude-sonnet-4-5">> }

\* The message lists of the inbound requests: one within every limit, one
\* over the default limit that compaction brings under it, and one over
\* it that compaction cannot help (the tail alone is too long).
ProxyBodies ==
  { <<SmallUser>>, <<HugeUser, SmallUser, SmallUser>>,
    <<SmallUser, HugeUser>> }

\* The credentials of the environment: all of them, or none.
KeySets == {Providers, {}}

\* The limiter of the proxy runs: the proxy constructs it with 60, 100,
\* 60 and 50 per minute; the runs scale the quotas down, so that a bucket
\* empties within a few requests.
ProxyConfigs ==
  {[glm |-> 1, featherless |-> 1, google |-> 2, anthropic |-> 2]}

ProxyInit ==
  /\ Constructed(ProxyConfigs)
  /\ cmConfig \in {c \in CompactionConfigs : c.tailReserve = 2}
  /\ cmLimit = DefaultContextLimit
  /\ cmSystem = 0
  /\ cmMaxTokens = 0
  /\ cmOrig \in {WithIds(f) : f \in ProxyBodies}
  /\ cmPrev = <<>>
  /\ cmBody = cmOrig
  /\ cmResult = NoResult
  /\ cmPasses = 0
  /\ NoCall
  /\ NoExchange
  /\ NoRetry

ProxyNext ==
  \/ \E r \in Req, kind \in RequestKinds, m \in ProxyModels,
        keys \in KeySets, t \in Timeouts : ProxyArrive(r, kind, m, keys, t)
  \/ \E r \in Req : ProxyWake(r)
  \/ \E r \in Req, s \in {"answers", "silent"} : ProxySend(r, s)
  \/ \E r \in Req, o \in UpstreamOutcomes : ProxyRespond(r, o)
  \/ \E r \in Req : ProxyFinish(r)
  \/ \E d \in Deltas : Tick(d)

ProxySpec == ProxyInit /\ [][ProxyNext]_vars

\* Requests in flight together: a request arrives while others are inside
\* their handlers.  The bodies are one within every limit and one that
\* compaction cannot bring under the default limit.
OverlapInit ==
  /\ ProxyInit
  /\ cmOrig \in {WithIds(<<SmallUser>>), WithIds(<<SmallUser, HugeUser>>)}

\* The overlapping requests are POSTs to /v1/messages, with a body that
\* parses or not.
OverlapKinds == {"messages", "malformed"}

OverlapNext ==
  \/ \E r \in Req, kind \in OverlapKinds, m \in ProxyModels,
        keys \in KeySets, t \in Timeouts : Dispatch(r, kind, m, keys, t)
  \/ \E r \in Req : ProxyWake(r)
  \/ \E r \in Req, s \in {"answers", "silent"} : ProxySend(r, s)
  \/ \E r \in Req, o \in UpstreamOutcomes : ProxyRespond(r, o)
  \/ \E r \in Req : ProxyFinish(r)
  \/ \E d \in Deltas : Tick(d)

OverlapSpec == OverlapInit /\ [][OverlapNext]_vars

\* ------------------------------------------------ callGLM (zai-mcp-server)
RETRY_CONFIG ==
  [maxRetries |-> 3, initialDelay |-> 1000, maxDelay |-> 30000,
   backoffMultiplier |-> 2,
   retryableCodes |-> {408, 429, 500, 502, 503, 504}]

\* list.indexOf(x), 0-based, -1 when absent
IndexOf(list, x) ==
  IF \E i \in 1..Len(list) : list[i] = x
  THEN (CHOOSE i \in 1..Len(list) :
          list[i] = x /\ \A j \in 1..(i - 1) : list[j] # x) - 1
  ELSE -1

\* getBackoffDelay(attempt), with Math.random() = rnd / 1000
getBackoffDelay(attempt, rnd) ==
  LET delay == Min(RETRY_CONFIG.initialDelay
                     * RETRY_CONFIG.backoffMultiplier ^ attempt,
                   RETRY_CONFIG.maxDelay)
  IN delay + (rnd * delay) \div 4000

\* a test on the status alone, which forgets the attempts left
RetriedByStatus_NoBudget(status, attempt) ==
  status \in RETRY_CONFIG.retryableCodes

\* callGLM's test on a response that is not ok:
\* retryableCodes.includes(response.status) && attempt < maxRetries
RetriedByStatus(status, attempt) ==
  status \in RETRY_CONFIG.retryableCodes /\ attempt < RETRY_CONFIG.maxRetries

\* The endpoint of the next attempt after a retried response: the next
\* of the list on a 5xx, when the current one is not the last.
NextEndpoint(currentEndpoint, status) ==
  IF status >= 500 /\ Len(FALLBACK_ENDPOINTS) > 1
  THEN LET currentIndex == IndexOf(FALLBACK_ENDPOINTS, currentEndpoint)
       IN IF currentIndex < Len(FALLBACK_ENDPOINTS) - 1
          THEN FALLBACK_ENDPOINTS[currentIndex + 2]
          ELSE currentEndpoint
  ELSE currentEndpoint

\* callGLM's catch block: it receives whatever the try block threw, the
\* error of a response that was not retried included, and sleeps when
\* attempts remain.
CatchSleeps(attempt) == attempt < RETRY_CONFIG.maxRetries

\* How an attempt can end: a response that is ok and whose body parses, a
\* response that is ok and whose body response.json() rejects, a response
\* with an error status, the connection failing, or the abort of
\* fetchWithTimeout.
FetchOutcomes ==
  [kind : {"ok", "garbled"}, status : {200}]
    \cup [kind : {"status"}, status : {400, 429, 500, 501}]
    \cup [kind : {"network", "timeout"}, status : {0}]

\* Math.random(), in thousandths
Randoms == {0, 999}

\* GLM_BASE_URL: an endpoint of the list, or one set in the environment
BaseUrls ==
  {FALLBACK_ENDPOINTS[i] : i \in 1..Len(FALLBACK_ENDPOINTS)}
    \cup {"https://glm.example/v4"}

\* A tool handler calls callGLM: the first fetch goes to GLM_BASE_URL.
CallGLM ==
  /\ glmCall.pc \in {"idle", "returned", "thrown"}
  /\ glmCall' = [IdleCall EXCEPT !.pc = "fetching", !.base = glmCall.base,
                                 !.endpoint = glmCall.base]
  /\ UNCHANGED <<rlVars, cmVars, fnVars, hxVars>>

\* The fetch of the current attempt ends with outcome o and the loop body
\* runs to its next await (the backoff sleep) or to the end of callGLM.
AttemptEnds(o, rnd) ==
  /\ glmCall.pc = "fetching"
  /\ LET a == glmCall.attempt
         entry == [endpoint |-> glmCall.endpoint, outcome |-> o]
         retried == o.kind = "status" /\ RetriedByStatus(o.status, a)
         sleeps == retried \/ CatchSleeps(a)
     IN glmCall' =
          IF o.kind = "ok"
          THEN [glmCall EXCEPT !.pc = "returned", !.log = Append(@, entry)]
          ELSE [glmCall EXCEPT
                  !.pc = IF sleeps THEN "backoff" ELSE "thrown",
                  !.lastError = o,
                  !.endpoint = IF retried THEN NextEndpoint(@, o.status)
                               ELSE @,
                  !.log = Append(@, entry),
                  !.sleeps = IF sleeps
                             THEN Append(@, getBackoffDelay(a, rnd))
                             ELSE @,
                  !.attempt = IF sleeps THEN @ ELSE @ + 1]
  /\ UNCHANGED <<rlVars, cmVars, fnVars, hxVars>>

\* The backoff sleep is over: attempt++ and the next fetch is issued.
BackoffEnds ==
  /\ glmCall.pc = "backoff"
  /\ glmCall' = [glmCall EXCEPT !.pc = "fetching", !.attempt = @ + 1]
  /\ UNCHANGED <<rlVars, cmVars, fnVars, hxVars>>

RetryInit ==
  /\ RateLimiterInit
  /\ NoCompaction
  /\ NoCall
  /\ NoExchange
  /\ glmCall \in {[IdleCall EXCEPT !.base = b] : b \in BaseUrls}

RetryNext ==
  \/ CallGLM
  \/ \E o \in FetchOutcomes, rnd \in Randoms : AttemptEnds(o, rnd)
  \/ BackoffEnds

RetrySpec == RetryInit /\ [][RetryNext]_vars

\* ------------------------------------------- waiting calls of one provider
\* The limiter under calls that arrive between each other's polls: one
\* provider, a quota of one token per two seconds, time in half seconds.
QueueConfigs == {[glm |-> 30, featherless |-> 1, google |-> 1, anthropic |-> 1]}

HalfSecond == 500

QueueInit ==
  /\ Constructed(QueueConfigs)
  /\ NoCompaction
  /\ NoCall
  /\ NoExchange
  /\ NoRetry

QueueNext ==
  \/ \E r \in Req, t \in Timeouts : Arrive(r, "glm", t)
  \/ \E r \in Req : Wake(r)
  \/ \E r \in Req : Send(r)
  \/ \E r \in Req : Respond(r)
  \/ \E r \in Req : Finish(r)
  \/ Tick(HalfSecond)

QueueSpec == QueueInit /\ [][QueueNext]_vars

\* ------------------------------------------------- refillTokens in doubles
\* JavaScript numbers are IEEE 754 doubles.  A non-negative double is kept
\* as [m, e] with value m * 2^e, m a sequence of 53 bits (most significant
\* first, the first one 1), or the empty sequence for zero.  Every
\* operation rounds its exact result to nearest, ties to even.
MantissaBits == 53

RECURSIVE BitsOf(_)
BitsOf(n) == IF n = 0 THEN <<>> ELSE BitsOf(n \div 2) \o <<n % 2>>

Zeros(k) == [i \in 1..k |-> 0]

RECURSIVE StripZeros(_)
StripZeros(b) ==
  IF b # <<>> /\ Head(b) = 0 THEN StripZeros(Tail(b)) ELSE b

\* The arithmetic on bit sequences goes ChunkBits bits at a time.
ChunkBits == 10

ChunkSize == 2 ^ ChunkBits

\* the number a short bit sequence stands for
RECURSIVE ValueOf(_)
ValueOf(b) ==
  IF b = <<>> THEN 0
  ELSE 2 * ValueOf(SubSeq(b, 1, Len(b) - 1)) + b[Len(b)]

\* the w low bits of n
BitsN(n, w) == [i \in 1..w |-> (n \div (2 ^ (w - i))) % 2]

\* the last w bits of b (all of b when it is shorter), and the rest
LowBits(b, w) == SubSeq(b, Max(Len(b) - w, 0) + 1, Len(b))

HighBits(b, w) == SubSeq(b, 1, Max(Len(b) - w, 0))

\* a + b + c for bit sequences a, b and a small carry c
RECURSIVE AddBits(_, _, _)
AddBits(a, b, c) ==
  IF Len(a) <= ChunkBits /\ Len(b) <= ChunkBits
  THEN BitsOf(ValueOf(a) + ValueOf(b) + c)
  ELSE LET x == ValueOf(LowBits(a, ChunkBits))
                  + ValueOf(LowBits(b, ChunkBits)) + c
       IN AddBits(HighBits(a, ChunkBits), HighBits(b, ChunkBits),
                  x \div ChunkSize)
            \o BitsN(x % ChunkSize, ChunkBits)

\* b * k + c for a bit sequence b and small k, c
RECURSIVE MulBits(_, _, _)
MulBits(b, k, c) ==
  IF Len(b) <= ChunkBits THEN BitsOf(ValueOf(b) * k + c)
  ELSE LET x == ValueOf(LowBits(b, ChunkBits)) * k + c
       IN MulBits(HighBits(b, ChunkBits), k, x \div ChunkSize)
            \o BitsN(x % ChunkSize, ChunkBits)

\* quotient and remainder of a bit sequence by a small d (long division)
RECURSIVE DivBits(_, _)
DivBits(b, d) ==
  IF Len(b) <= ChunkBits
  THEN [q |-> BitsN(ValueOf(b) \div d, Len(b)), r |-> ValueOf(b) % d]
  ELSE LET p == DivBits(HighBits(b, ChunkBits), d)
           x == p.r * ChunkSize + ValueOf(LowBits(b, ChunkBits))
       IN [q |-> p.q \o BitsN(x \div d, ChunkBits), r |-> x % d]

\* a < b for bit sequences without leading zeros
BitsLess(a, b) ==
  IF Len(a) # Len(b) THEN Len(a) < Len(b)
  ELSE \E i \in 1..Len(a) :
         a[i] < b[i] /\ \A j \in 1..(i - 1) : a[j] = b[j]

DblZero == [m |-> <<>>, e |-> 0]

\* The double nearest to bits * 2^e (ties to even).
RoundToDouble(bits, e) ==
  LET b == StripZeros(bits)
      n == Len(b)
  IN IF n = 0 THEN DblZero
     ELSE IF n <= MantissaBits
          THEN [m |-> b \o Zeros(MantissaBits - n),
                e |-> e - (MantissaBits - n)]
          ELSE LET top == SubSeq(b, 1, MantissaBits)
                   half == b[MantissaBits + 1] = 1
                   more == \E i \in (MantissaBits + 2)..n : b[i] = 1
                   up == half /\ (more \/ top[MantissaBits] = 1)
                   inc == IF up THEN AddBits(top, <<>>, 1) ELSE top
                   ex == e + n - MantissaBits
               IN IF Len(inc) > MantissaBits
                  THEN [m |-> SubSeq(inc, 1, MantissaBits), e |-> ex + 1]
                  ELSE [m |-> inc, e |-> ex]

\* the double of a small non-negative integer
DblOf(n) == RoundToDouble(BitsOf(n), 0)

\* x / d for a small integer d: the quotient is taken to 64 further bits
\* and a non-zero remainder kept as one more bit below them
DblDiv(x, d) ==
  IF x.m = <<>> THEN DblZero
  ELSE LET qr == DivBits(x.m \o Zeros(64), d)
       IN RoundToDouble(qr.q \o <<IF qr.r # 0 THEN 1 ELSE 0>>, x.e - 65)

\* x * k for a small integer k
DblMul(x, k) ==
  IF x.m = <<>> THEN DblZero ELSE RoundToDouble(MulBits(x.m, k, 0), x.e)

\* x + y
DblAdd(x, y) ==
  IF x.m = <<>> THEN y
  ELSE IF y.m = <<>> THEN x
  ELSE LET e == Min(x.e, y.e)
       IN RoundToDouble(AddBits(x.m \o Zeros(x.e - e),
                                y.m \o Zeros(y.e - e), 0), e)

\* x < y
DblLess(x, y) ==
  IF y.m = <<>> THEN FALSE
  ELSE IF x.m = <<>> THEN TRUE
  ELSE IF x.e # y.e THEN x.e < y.e
  ELSE BitsLess(x.m, y.m)

\* Math.min(x, y)
DblMin(x, y) == IF DblLess(y, x) THEN y ELSE x

\* a refill that forgets the division by 60 (tokens per second)
refillTokensDouble_PerSecond(bucket, ms, limit) ==
  LET elapsed == DblDiv(DblOf(ms), 1000)
  IN DblMin(DblOf(limit), DblAdd(bucket, DblMul(elapsed, limit)))

\* refillTokens as the code computes it: elapsed = ms / 1000;
\* tokensToAdd = (elapsed / 60) * limit;
\* bucket = Math.min(limit, bucket + tokensToAdd)
refillTokensDouble(bucket, ms, limit) ==
  LET elapsed == DblDiv(DblOf(ms), 1000)
      tokensToAdd == DblMul(DblDiv(elapsed, 60), limit)
  IN DblMin(DblOf(limit), DblAdd(bucket, tokensToAdd))

\* canProceed's test after the refill: bucket >= 1
canProceedDouble(bucket) == ~DblLess(bucket, DblOf(1))

\* The bucket after one refill per interval, in turn.
RECURSIVE RefillEach(_, _, _)
RefillEach(bucket, intervals, limit) ==
  IF intervals = <<>> THEN bucket
  ELSE RefillEach(refillTokensDouble(bucket, Head(intervals), limit),
                  Tail(intervals), limit)

RECURSIVE SumOf(_)
SumOf(s) == IF s = <<>> THEN 0 ELSE Head(s) + SumOf(Tail(s))

\* The quotas and the intervals between polls (ms) the refill is run on.
MaxPolls == 3

AccrualLimits == {2, 6, 60}

AccrualIntervals == {0, 100, 1000, 9000, 29900}

\* refillTokens run on an emptied bucket: once after the whole time, and
\* once per interval.
CallRefillTokens ==
  /\ call.fn = "refillTokens"
  /\ ret.fn = "none"
  /\ ret' = [fn |-> "refillTokens",
             whole |-> refillTokensDouble(DblZero, SumOf(call.intervals),
                                          call.limit),
             split |-> RefillEach(DblZero, call.intervals, call.limit)]
  /\ UNCHANGED <<call, rlVars, cmVars, hxVars, rtVars>>

AccrualInit ==
  /\ RateLimiterInit
  /\ NoCompaction
  /\ NoExchange
  /\ NoRetry
  /\ call \in [fn : {"refillTokens"}, limit : AccrualLimits,
               intervals : SeqsUpTo(AccrualIntervals, MaxPolls)]
  /\ ret = [fn |-> "none"]

AccrualNext == CallRefillTokens

AccrualSpec == AccrualInit /\ [][AccrualNext]_vars

\* ------------------------------------------------ retryWithBackoff
\* The errors fn can throw, by what the catch block tests: the markers
\* error.message includes, and error.code.
FnErrors ==
  { [ok |-> FALSE, has |-> {"429"}, code |-> "none"],
    [ok |-> FALSE, has |-> {"timeout"}, code |-> "none"],
    [ok |-> FALSE, has |-> {}, code |-> "ETIMEDOUT"],
    [ok |-> FALSE, has |-> {"ECONNRESET", "quota exceeded"}, code |-> "none"],
    [ok |-> FALSE, has |-> {}, code |-> "none"] }

\* fn resolves
FnOk == [ok |-> TRUE, has |-> {}, code |-> "none"]

\* lastError before any error was caught
NoFnError == [ok |-> FALSE, has |-> {}, code |-> "undefined"]

\* error.message includes '429', 'rate limit' or 'quota exceeded'
isRateLimit(error) ==
  error.has \cap {"429", "rate limit", "quota exceeded"} # {}

\* isRateLimit, or the message includes 'timeout' or 'ECONNRESET', or
\* error.code === 'ETIMEDOUT'
isRetryable(error) ==
  \/ isRateLimit(error)
  \/ error.has \cap {"timeout", "ECONNRESET"} # {}
  \/ error.code = "ETIMEDOUT"

\* a delay that grows without the cap
BackoffDelay_Uncapped(delay, error, options) ==
  IF isRateLimit(error) THEN delay * options.factor * 2
  ELSE delay * options.factor

\* The delay of the next wait: Math.min(delay * factor * 2, maxDelay) for
\* a rate limit, Math.min(delay * factor, maxDelay) otherwise.
BackoffDelay(delay, error, options) ==
  IF isRateLimit(error) THEN Min(delay * options.factor * 2, options.maxDelay)
  ELSE Min(delay * options.factor, options.maxDelay)

\* retryWithBackoff's loop from the given attempt on: outcomes[k + 1] is
\* how fn(k) settles, FnOk or the error it throws.  The run records the
\* attempts fn was invoked with and the waits between them.
RECURSIVE RetryLoop(_, _, _, _, _)
RetryLoop(options, outcomes, attempt, delay, run) ==
  IF attempt > options.maxRetries
  THEN [run EXCEPT !.result = "thrown"]
  ELSE LET out == outcomes[attempt + 1]
           invoked == [run EXCEPT !.invoked = Append(@, attempt)]
       IN IF out.ok
          THEN [invoked EXCEPT !.result = "returned", !.value = attempt]
          ELSE IF ~isRetryable(out) \/ attempt = options.maxRetries
               THEN [invoked EXCEPT !.result = "thrown", !.error = out]
               ELSE LET next == BackoffDelay(delay, out, options)
                    IN RetryLoop(options, outcomes, attempt + 1, next,
                                 [invoked EXCEPT !.error = out,
                                                 !.waits = Append(@, next)])

\* retryWithBackoff(fn, options): lastError undefined, delay = initialDelay
retryWithBackoff(outcomes, options) ==
  RetryLoop(options, outcomes, 0, options.initialDelay,
            [result |-> "none", value |-> -1, error |-> NoFnError,
             invoked |-> <<>>, waits |-> <<>>])

\* The options of the calls: the defaults (3, 1000, 60000, 2) and values
\* around them, with factors that do not shrink the delay.
BackoffOptions ==
  [maxRetries : {0, 1, 3}, initialDelay : {1000, 40000},
   maxDelay : {60000}, factor : {1, 2}]

\* The longest run of fn outcomes a call is given.
MaxInvocations == 4

FnOutcomes == {FnOk} \cup FnErrors

CallRetryWithBackoff ==
  /\ call.fn = "retryWithBackoff"
  /\ ret.fn = "none"
  /\ ret' = [fn |-> "retryWithBackoff",
             run |-> retryWithBackoff(call.outcomes, call.options)]
  /\ UNCHANGED <<call, rlVars, cmVars, hxVars, rtVars>>

BackoffInit ==
  /\ RateLimiterInit
  /\ NoCompaction
  /\ NoExchange
  /\ NoRetry
  /\ call \in [fn : {"retryWithBackoff"}, options : BackoffOptions,
               outcomes : [1..MaxInvocations -> FnOutcomes]]
  /\ ret = [fn |-> "none"]

BackoffNext == CallRetryWithBackoff

BackoffSpec == BackoffInit /\ [][BackoffNext]_vars

\* --------------------------------------------- answering an upstream 200
\* What handleGLM and handleFeatherless write for an upstream answer with
\* status 200 whose body parses: the translated message, or, when
\* openaiToAnthropic throws, the 500 of the catch around it.
DecodedAnswer(resp, emulateTools, stamps) ==
  IF openaiToAnthropicThrows(resp, emulateTools, stamps)
  THEN ErrorResponse(500, "api_error")
  ELSE MessageResponse

\* The assistant texts of the answers: prose, delimited blocks with a
\* complete call, with a call that lacks a field, and with broken JSON.
AnswerSegments ==
  Segments \cup { <<"OPEN", "JNoArgs", "CLOSE">>, <<"OPEN", "JNoName", "CLOSE">> }

AnswerTexts == {Flatten(ss) : ss \in SeqsUpTo(AnswerSegments, MaxSegments)}

AnswerResponses ==
  [choice : {TRUE}, content : AnswerTexts, tool_calls : {<<>>},
   finish_reason : {"stop", "tool_calls"}]

\* The handler receives the upstream's 200 and answers.
CallDecodedAnswer ==
  /\ call.fn = "answer"
  /\ ret.fn = "none"
  /\ \E st \in Stamps(IdsDrawn(call.resp.content)) :
       ret' = [fn |-> "answer",
               response |-> DecodedAnswer(call.resp, call.emulateTools, st)]
  /\ UNCHANGED <<call, rlVars, cmVars, hxVars, rtVars>>

AnswerInit ==
  /\ RateLimiterInit
  /\ NoCompaction
  /\ NoExchange
  /\ NoRetry
  /\ call \in [fn : {"answer"}, resp : AnswerResponses,
               emulateTools : BOOLEAN]
  /\ ret = [fn |-> "none"]

AnswerNext == CallDecodedAnswer

AnswerSpec == AnswerInit /\ [][AnswerNext]_vars

\* --------------------------------------- what handleFeatherless sends
\* The length of toolCallInstructions without ${toolsDescription}.
InstructionChars == 2863

\* toolsDescription: the tools' descriptions joined by '\n\n'; a tool is
\* given by the length of its description.
ToolsDescriptionChars(tools) == SumOf(tools) + 2 * (Len(tools) - 1)

\* The length of injectToolsIntoPrompt(systemPrompt, tools):
\* (systemPrompt || '') + '\n\n' + toolCallInstructions
InjectedSystemChars(system, tools) ==
  IF tools = <<>> THEN system
  ELSE system + 2 + InstructionChars + ToolsDescriptionChars(tools)

FeatherlessModel == <<"featherless", "/", "org", "/", "model-name">>

\* handleFeatherless from its entry to makeRequest's body: the context
\* check of the inbound body, one compaction and the recheck, then
\* anthropicToOpenAI(workingBody, emulateTools) with emulateTools set when
\* the body carries tools.  Lengths stand for the texts.
FeatherlessOutbound(body, config) ==
  LET limit == getContextLimit(FeatherlessModel)
      working == WorkingBody("featherless", body.msgs, body.system,
                             body.maxTok, limit, config)
  IN [sent |-> ~ContextRefused("featherless", body.msgs, body.system,
                               body.maxTok, limit, config),
      limit |-> limit,
      system |-> InjectedSystemChars(body.system, body.tools),
      messages |-> working,
      max_tokens |-> cappedTokens(body.maxTok,
                                  getModelLimit(FeatherlessModel))]

\* The bodies: up to four messages, with and without a system prompt,
\* without tools, with one tool of the shortest description and with one
\* of 600 characters.
SentKinds == {SmallUser, BigAssistant, HugeUser, LongUser}

SentBodies ==
  [msgs : UNION {{WithIds(f) : f \in [1..n -> SentKinds]} : n \in 1..4},
   system : {0, 400}, maxTok : {0}, tools : {<<>>, <<58>>, <<600>>}]

CallFeatherlessOutbound ==
  /\ call.fn = "featherlessOutbound"
  /\ ret.fn = "none"
  /\ ret' = [fn |-> "featherlessOutbound",
             out |-> FeatherlessOutbound(call.body, call.config)]
  /\ UNCHANGED <<call, rlVars, cmVars, hxVars, rtVars>>

SendInit ==
  /\ RateLimiterInit
  /\ NoCompaction
  /\ NoExchange
  /\ NoRetry
  /\ call \in [fn : {"featherlessOutbound"}, body : SentBodies,
               config : {c \in CompactionConfigs : c.tailReserve = 2}]
  /\ ret = [fn |-> "none"]

SendNext == CallFeatherlessOutbound

SendSpec == SendInit /\ [][SendNext]_vars

\* ------------------------------------------------------------------ claims

\* C1: for every provider, in every reachable state, the bucket's token
\* count is at most the provider's per-minute capacity and at least zero.
C1_BucketWithinCapacity ==
  \A p \in Providers :
    /\ buckets[p] >= 0
    /\ buckets[p] <= limits[p] * MsPerMinute

\* C1 witness: a bucket that was drained, refilled and drained again.
C1_Witness ==
  \E p \in Providers : admittedCount[p] > limits[p] /\ buckets[p] = 0

\* C2: every step that admits a request admits exactly one, on a bucket that
\* held at least one token after that step's own refill, and leaves the
\* refilled count minus one; the tokens consumed so far never exceed the
\* initial capacity plus what has regenerated (no token is spent twice).
C2_AtomicAdmission ==
  [][\A p \in Providers :
       admittedCount'[p] # admittedCount[p] =>
         /\ admittedCount'[p] = admittedCount[p] + 1
         /\ Refilled(p) >= MsPerMinute
         /\ buckets'[p] = Refilled(p) - MsPerMinute
         /\ buckets'[p] >= 0
         /\ admittedCount'[p] * MsPerMinute + buckets'[p]
              <= limits[p] * MsPerMinute + limits[p] * lastRefill'[p]]_vars

\* C2 witness: two requests polled the same drained-and-refilled bucket at
\* the same instant; one was admitted on the regenerated token, the other
\* was sent back to sleep.
C2_Witness ==
  \E r1, r2 \in Req :
    /\ r1 # r2
    /\ pc[r1] = "admitted" /\ pc[r2] = "sleeping"
    /\ prov[r1] = prov[r2]
    /\ lastPoll[r1] = lastPoll[r2]
    /\ admittedCount[prov[r1]] > limits[prov[r1]]

\* C3: a request has made its outbound call only if its admission
\* succeeded (its waitForToken call consumed a token); a request whose
\* admission failed has made no outbound call.
C3_SendOnlyAfterAdmission ==
  \A r \in Req :
    /\ outbound[r] => granted[r]
    /\ pc[r] \in {"sending", "done"} => granted[r]
    /\ pc[r] = "rejected" => ~outbound[r] /\ ~granted[r]

\* C3 witness: one request is in its outbound call while another was
\* refused admission.
C3_Witness ==
  \E r1, r2 \in Req :
    /\ pc[r1] = "sending" /\ outbound[r1] /\ granted[r1]
    /\ pc[r2] = "rejected"

\* C4: while no time has elapsed, at most Q calls are admitted and a call is
\* made to wait only when Q have been; every admission beyond the first Q
\* needs its token's regeneration time: the k-th extra admission happens
\* no earlier than k * 60000/Q ms.
C4_BurstThenWait ==
  \A p \in Providers :
    /\ now = 0 => admittedCount[p] <= limits[p]
    /\ now = 0 =>
         \A r \in Req :
           pc[r] \in {"sleeping", "rejected"} /\ prov[r] = p
             => admittedCount[p] = limits[p]
    /\ (admittedCount[p] - limits[p]) * MsPerMinute <= limits[p] * now

\* C4 witness: call number Q+1 has been admitted, exactly one regeneration
\* time after the burst.
C4_Witness ==
  \E p \in Providers :
    /\ admittedCount[p] = limits[p] + 1
    /\ now = WaitTime(limits[p])

\* C5 (as claimed): a call is never admitted once more than timeoutMs has
\* elapsed since it started.
C5_NoAdmissionAfterDeadline ==
  \A r \in Req :
    pc[r] = "admitted" => lastPoll[r] - startTime[r] <= timeoutOf[r]

\* C5 (amended): a call goes to sleep only at a poll made no later than its
\* deadline, and fails with a timeout only at a poll made after it.
C5_DeadlineCheckedAtPoll ==
  \A r \in Req :
    /\ pc[r] = "sleeping" => lastPoll[r] - startTime[r] <= timeoutOf[r]
    /\ pc[r] = "rejected" => lastPoll[r] - startTime[r] > timeoutOf[r]

\* C5 witness: a call with a positive deadline has timed out.
C5_Witness ==
  \E r \in Req : pc[r] = "rejected" /\ timeoutOf[r] > 0

\* C6: a refill of an empty bucket after at least ceil(60000/Q) ms leaves at
\* least one token, and the poll that made it admits its caller.
C6_WaitYieldsToken ==
  \A p \in Providers :
    emptyRefill[p].elapsed >= WaitTime(limits[p]) =>
      /\ emptyRefill[p].to >= MsPerMinute
      /\ emptyRefill[p].admitted

\* C6 witness: an empty bucket was refilled after exactly ceil(60000/Q) ms,
\* for a quota Q that does not divide 60000.
C6_Witness ==
  \E p \in Providers :
    /\ emptyRefill[p].elapsed = WaitTime(limits[p])
    /\ WaitTime(limits[p]) * limits[p] > MsPerMinute
\* the last n messages of a list
LastN(msgs, n) == SubSeq(msgs, Len(msgs) - n + 1, Len(msgs))

\* compactMessages' own estimate of a request: system, message texts and
\* max_tokens (the response reserve when absent)
CompactionEstimate(msgs) ==
  estimateTokens(cmSystem) + SumTokens(msgs)
    + (IF cmMaxTokens = 0 THEN ResponseTokenReserve ELSE cmMaxTokens)

BudgetCeiling == (cmLimit * BufferRatioPercent) \div 100

\* C7 (as claimed): after a compactMessages call the estimated tokens of the
\* returned list are at most those of the list it was given, and the
\* returned list is not longer.
C7_CompactionNeverGrows ==
  cmPasses >= 1 =>
    /\ SumTokens(cmBody) <= SumTokens(cmPrev)
    /\ Len(cmBody) <= Len(cmPrev)

\* C8: whenever a call compacted, the last tailReserve messages of its
\* result are the last tailReserve messages of its input, in order.
C8_TailPreserved ==
  (cmPasses >= 1 /\ cmResult.compacted) =>
    /\ Len(cmBody) >= cmConfig.tailReserve
    /\ Len(cmPrev) >= cmConfig.tailReserve
    /\ LastN(cmBody, cmConfig.tailReserve)
         = LastN(cmPrev, cmConfig.tailReserve)

\* C8 witness: a call with the default tailReserve removed every older
\* message.
C8_Witness ==
  /\ cmPasses = 1 /\ cmResult.compacted
  /\ cmConfig.tailReserve = DefaultTailReserve
  /\ cmResult.removed = Len(cmPrev) - cmConfig.tailReserve
  /\ cmResult.removed >= 1

\* C9 (as claimed): with compaction enabled, for a request longer than
\* tailReserve whose estimate exceeds the context limit, the estimate
\* recomputed after compaction is at most floor(contextLimit * bufferRatio).
C9_FitsAfterCompaction ==
  (/\ cmPasses = 1
   /\ cmConfig.enabled
   /\ Len(cmOrig) > cmConfig.tailReserve
   /\ ~checkContextLimit(cmOrig, cmSystem, cmMaxTokens, cmLimit))
    => CheckEstimate(cmBody, cmSystem, cmMaxTokens) <= BudgetCeiling

\* C9 (amended): when a call compacted, and the budget left after the
\* reserved tail and the summary cap is at least the minimum retained size,
\* and the summary's estimate is within the summary cap, then
\* compactMessages' own estimate of the result is at most
\* floor(contextLimit * bufferRatio).
C9_FitsWhenTailLeavesRoom ==
  (/\ cmPasses >= 1
   /\ cmResult.compacted
   /\ AvailableTokens(cmSystem, cmMaxTokens, cmLimit)
        - SumTokens(LastN(cmPrev, cmConfig.tailReserve)) - SummaryMaxTokens
        >= MinContextTokens
   /\ MsgTokens(cmBody[1]) <= SummaryMaxTokens)
    => /\ CompactionEstimate(cmBody) <= BudgetCeiling
       /\ cmResult.finalTokens = SumTokens(cmBody)

\* C9 witness: an over-limit request was compacted by removing two
\* messages and its tail left room.
C9_Witness ==
  /\ cmPasses = 1 /\ cmResult.compacted /\ cmResult.removed >= 2
  /\ ~checkContextLimit(cmOrig, cmSystem, cmMaxTokens, cmLimit)
  /\ AvailableTokens(cmSystem, cmMaxTokens, cmLimit)
       - SumTokens(LastN(cmPrev, cmConfig.tailReserve)) - SummaryMaxTokens
       >= MinContextTokens
  /\ CompactionEstimate(cmPrev) > BudgetCeiling

\* C10: on a request of at most tailReserve messages every call is a no-op:
\* the same messages, compacted false, nothing removed; so a second call
\* returns what the first returned.
C10_ShortRequestNoOp ==
  (cmPasses >= 1 /\ Len(cmOrig) <= cmConfig.tailReserve) =>
    /\ cmBody = cmOrig
    /\ cmPrev = cmOrig
    /\ ~cmResult.compacted
    /\ cmResult.removed = 0
    /\ cmResult.original = Len(cmOrig) /\ cmResult.final = Len(cmOrig)

\* C10 witness: a request of exactly tailReserve messages, over its budget,
\* compacted twice with compaction enabled.
C10_Witness ==
  /\ cmPasses = 2
  /\ cmConfig.enabled
  /\ Len(cmOrig) = cmConfig.tailReserve
  /\ SumTokens(cmOrig) > AvailableTokens(cmSystem, cmMaxTokens, cmLimit)
\* C11: a Featherless request that is over the context limit is compacted
\* once; when it is still over the limit after that one pass the handler
\* answers context_length_exceeded: no second compaction, no admission, no
\* call to the provider.
C11_OnePassThenReject ==
  LET ok == checkContextLimit(cmOrig, cmSystem, cmMaxTokens, cmLimit)
      once == compactMessages(cmOrig, cmSystem, cmMaxTokens, cmLimit,
                              cmConfig).messages
      recheck == checkContextLimit(once, cmSystem, cmMaxTokens, cmLimit)
  IN /\ cmPasses <= 1
     /\ (~ok /\ ~recheck) =>
          \A r \in Req :
            /\ pc[r] \in {"idle", "ctxerror"}
            /\ ~outbound[r] /\ ~granted[r]
            /\ admittedCount["featherless"] = 0
            /\ pc[r] = "ctxerror" => cmPasses = 1 /\ cmBody = once

\* a compacted request that is still too long has been answered
C11_Witness ==
  /\ \E r \in Req : pc[r] = "ctxerror"
  /\ cmPasses = 1
  /\ cmResult.compacted
  /\ cmBody # cmOrig

\* the delimited blocks of a text whose interior is one JSON object
WellFormedBlocks(t) ==
  {i \in 1..Len(t) :
     /\ t[i] = "OPEN"
     /\ SkipWs(t, i + 1) <= Len(t)
     /\ t[SkipWs(t, i + 1)] \in JsonObjects
     /\ SkipWs(t, SkipWs(t, i + 1) + 1) <= Len(t)
     /\ t[SkipWs(t, SkipWs(t, i + 1) + 1)] = "CLOSE"}

\* C12: decoding an assistant text yields exactly one invocation per
\* well-formed delimited JSON block (two well-formed blocks give two), and
\* a malformed block never prevents the extraction of a well-formed one.
C12_OneInvocationPerBlock ==
  ret.fn = "parseToolCalls" =>
    Len(ret.toolCalls) = Cardinality(WellFormedBlocks(call.text))

\* the tool_use blocks of a unified response
ToolUses(content) == SelectSeq(content, LAMBDA b : b.type = "tool_use")

\* the response was decoded by the emulation path
EmulatedPath == call.emulateTools /\ call.resp.content # <<>>

InvocationIds(e) ==
  {e.content[k] : k \in 1..Len(e.content)} \cap {"toolu_1", "toolu_2"}

\* the blocks of a unified message of a given type
BlocksOf(msg, type) ==
  IF msg.content.kind = "array"
  THEN SelectSeq(msg.content.blocks, LAMBDA b : b.type = type)
  ELSE <<>>

\* the request went to a translated provider through its native tool path
NativeToolPath ==
  /\ ret.fn = "handleRequest"
  /\ ret.out.provider \in {"glm", "google"}
  /\ supportsNativeToolCalling(ret.out.provider, ret.out.model)

\* the tool_result blocks of message i answer invocations of message i - 1
AnswersPrevious(msgs, i) ==
  /\ i > 1
  /\ msgs[i - 1].role = "assistant"
  /\ \A r \in 1..Len(BlocksOf(msgs[i], "tool_result")) :
       \E u \in 1..Len(BlocksOf(msgs[i - 1], "tool_use")) :
         BlocksOf(msgs[i - 1], "tool_use")[u].id
           = BlocksOf(msgs[i], "tool_result")[r].id

\* C14: on the native tool path every assistant invocation keeps its call
\* id in the translated assistant turn, and every translated tool result
\* refers to the call id of an invocation present in the translation.
C14_AssociationPreserved ==
  NativeToolPath =>
    LET msgs == call.body.messages
        es == ret.out.entries
    IN /\ \A i \in 1..Len(msgs) :
            msgs[i].role = "assistant" =>
              \A u \in 1..Len(BlocksOf(msgs[i], "tool_use")) :
                \E k \in 1..Len(es) :
                  /\ es[k].from = i
                  /\ BlocksOf(msgs[i], "tool_use")[u].id
                       \in InvocationIds(es[k])
       /\ \A i \in 1..Len(msgs) :
            AnswersPrevious(msgs, i) =>
            \A r \in 1..Len(BlocksOf(msgs[i], "tool_result")) :
              \E k \in 1..Len(es), j \in 1..Len(es) :
                /\ es[k].from = i
                /\ es[k].tool_call_id
                     = BlocksOf(msgs[i], "tool_result")[r].id
                /\ es[k].tool_call_id \in InvocationIds(es[j])

\* C15: in the OpenAI-form message list every tool_result block is its own
\* role "tool" entry, placed right after the assistant entry that produced
\* the matching invocation, with no entry of another role in between.
C15_ToolEntriesFollowAssistant ==
  (ret.fn = "handleRequest" /\ ret.out.form = "openai") =>
    LET msgs == call.body.messages
        es == ret.out.entries
    IN \A k \in 1..Len(es) :
         (es[k].role = "tool" /\ AnswersPrevious(msgs, es[k].from)) =>
           \E j \in 1..(k - 1) :
             /\ es[j].role = "assistant"
             /\ es[j].from = es[k].from - 1
             /\ \A x \in (j + 1)..(k - 1) : es[x].role = "tool"

\* C16: translation keeps the order of the messages and drops none: the
\* entries made from message i all come before those made from message j
\* when i is before j, and every message has at least one entry.
C16_OrderKeptNothingDropped ==
  (ret.fn = "handleRequest" /\ ret.out.form \in {"openai", "google"}) =>
    LET msgs == call.body.messages
        es == ret.out.entries
    IN /\ \A k \in 1..Len(es), x \in 1..Len(es) :
            k < x => es[k].from <= es[x].from
       /\ \A i \in 1..Len(msgs) : \E k \in 1..Len(es) : es[k].from = i
       /\ \A k \in 1..Len(es) : es[k].from \in 0..Len(msgs)

\* a conversation with tool results and a message without content went to
\* Google
C16_Witness ==
  /\ ret.fn = "handleRequest"
  /\ ret.out.form = "google"
  /\ Len(call.body.messages) >= 3
  /\ Len(ret.out.entries) > Len(call.body.messages) + 1
  /\ \E i \in 1..Len(call.body.messages) :
       call.body.messages[i].content.kind = "absent"

\* the output limit of the model the request goes to
TargetLimit == getModelLimit(ret.out.model)

KnownPrefix(str) == Len(str) >= 2 /\ str[1] \in Providers /\ str[2] = "/"

CatalogInjected(out) ==
  \E k \in 1..Len(out.entries) :
    \E x \in 1..Len(out.entries[k].content) :
      out.entries[k].content[x] = "TOOLCATALOG"

\* C19: native tool support is true for anthropic and google, false for
\* featherless, and for glm true exactly when the model name contains an
\* allow-listed substring; a request goes out with tool emulation exactly
\* when it carries tools and native support is false.
C19_EmulationFollowsTable ==
  ret.fn = "handleRequest" =>
    LET carriesTools == call.body.tools.present
                          /\ call.body.tools.list # <<>>
        allowListed ==
          \E i \in 1..Len(ret.out.model) :
            \/ ret.out.model[i]
                 \in {"glm-4", "gemini-pro", "gemini-1.5-pro",
                      "gemini-2.0-flash"}
        native == \/ ret.out.provider \in {"anthropic", "google"}
                  \/ ret.out.provider = "glm" /\ allowListed
    IN /\ supportsNativeToolCalling(ret.out.provider, ret.out.model) = native
       /\ CatalogInjected(ret.out) <=> (carriesTools /\ ~native)
       /\ CatalogInjected(ret.out) => ret.out.emulateTools /\ ret.out.tools = <<>>

\* a glm model outside the allow-list got its tools through the prompt
C19_Witness ==
  /\ ret.fn = "handleRequest"
  /\ ret.out.provider = "glm"
  /\ ret.out.model = <<"chatglm">>
  /\ CatalogInjected(ret.out)
  /\ ret.out.tools = <<>>

\* C20: the provider's finish reason maps to the unified stop reason:
\* tool_calls gives tool_use, stop gives end_turn, any other value is
\* passed through, no value gives end_turn.
C20_StopReasonMapping ==
  (ret.fn = "openaiToAnthropic" /\ call.resp.choice) =>
    LET fr == call.resp.finish_reason
    IN /\ fr = "tool_calls" => ret.stop_reason = "tool_use"
       /\ fr = "stop" => ret.stop_reason = "end_turn"
       /\ fr = "" => ret.stop_reason = "end_turn"
       /\ fr \notin {"tool_calls", "stop", ""} => ret.stop_reason = fr

\* a response that stopped at the length limit was translated
C20_Witness ==
  /\ ret.fn = "openaiToAnthropic"
  /\ call.resp.finish_reason = "length"
  /\ ret.stop_reason = "length"


\* The uniform error payload: {type: 'error', error: {type, message}} with
\* a type of the taxonomy.
UniformError(b) ==
  /\ DOMAIN b = {"type", "error"}
  /\ b.type = "error"
  /\ DOMAIN b.error = {"type", "message"}
  /\ b.error.type \in ErrorTypes

\* C21: every error response (status 400 or more) that the proxy writes
\* itself, as opposed to an upstream body passed through, has the uniform
\* shape {type: error, error: {type, message}} with error.type one of the
\* five types of the taxonomy.
C21_UniformErrorShape ==
  \A r \in Req :
    response[r].origin = "proxy" /\ response[r].status >= 400
      => UniformError(response[r].body)

\* A step that ends the outbound call of request r: makeRequest's promise
\* settles.  makeRequest sets no timer, so nothing else ends the call.
Settles(r) == \E o \in UpstreamOutcomes : ProxyRespond(r, o)

\* C22: an outbound call in flight can always be ended by a step of the
\* proxy (the provider's answer, a transport failure, or the expiry of
\* the call's timeout), so that no admitted request waits forever for a
\* provider that never answers.
C22_OutboundCallEnds ==
  \A r \in Req : pc[r] = "sending" => ENABLED Settles(r)

\* C23: in callGLM an upstream response whose status is not in the
\* retryable set (408, 429, 500, 502, 503, 504) makes the call fail after
\* that single attempt: it is the last attempt of the call, and the call
\* has failed without a backoff sleep.
C23_NonRetryableFailsAtOnce ==
  \A i \in 1..Len(glmCall.log) :
    /\ glmCall.log[i].outcome.kind = "status"
    /\ glmCall.log[i].outcome.status \notin RETRY_CONFIG.retryableCodes
    => i = Len(glmCall.log) /\ glmCall.pc = "thrown"

\* C24: waiting calls of one provider are released in arrival order: when
\* a call obtains a token, no call to the same provider that arrived
\* before it is still waiting for one.  (The earlier call's timer is not
\* even due: it is not a late timer that lets the later call pass.)
C24_ReleasedInArrivalOrder ==
  \A r \in Req, q \in Req :
    /\ pc[r] = "admitted"
    /\ pc[q] = "sleeping"
    /\ prov[q] = prov[r]
    /\ now < WakeAt(q)
    => ~(startTime[q] < startTime[r])

\* The stages of st that the order names occur in st in that order, each
\* at most once.
InOrder(order, st) ==
  \A i \in 1..Len(st), j \in 1..Len(st) :
    i < j /\ IndexOf(order, st[i]) >= 0 /\ IndexOf(order, st[j]) >= 0
      => IndexOf(order, st[i]) < IndexOf(order, st[j])

Ran(st, stage) == \E i \in 1..Len(st) : st[i] = stage

C26_OverLimitCompactedBeforeSend ==
  \A r \in Req :
    /\ outbound[r]
    /\ prov[r] \in {"glm", "featherless", "google"}
    /\ ~checkContextLimit(cmOrig, cmSystem, cmMaxTokens,
                          getContextLimit(inbound[r].model))
    => cmPasses >= 1 /\ cmResult.compacted

\* C27: whenever compactMessages reports compacted=true, its result is one
\* synthetic user-role summary message followed by the messages that were
\* not removed, in their original order: the part after the summary is
\* the suffix of the input that starts after the removed messages, and the
\* result length is the input length minus the removed count plus one.
C27_SummaryThenSuffix ==
  (cmPasses >= 1 /\ cmResult.compacted) =>
    /\ cmBody[1].role = "user" /\ cmBody[1].id = 0
    /\ Tail(cmBody) = SubSeq(cmPrev, cmResult.removed + 1, Len(cmPrev))
    /\ Len(cmBody) = Len(cmPrev) - cmResult.removed + 1
    /\ cmResult.final = Len(cmBody)
    /\ cmResult.original = Len(cmPrev)

\* C27 witness: a call removed some older messages and kept others in
\* front of the reserved tail.
C27_Witness ==
  /\ cmPasses >= 1 /\ cmResult.compacted
  /\ cmResult.removed >= 1
  /\ cmResult.removed < Len(cmPrev) - cmConfig.tailReserve

\* The older messages of a compactMessages input: those before the
\* reserved tail.
OlderOf(msgs) == SubSeq(msgs, 1, Len(msgs) - tailCount(cmConfig, Len(msgs)))

\* The bound the removal loop of the latest call worked against.
OlderBound ==
  TargetOlderTokens(AvailableTokens(cmSystem, cmMaxTokens, cmLimit),
                    SumTokens(LastN(cmPrev,
                                    tailCount(cmConfig, Len(cmPrev)))))

\* The estimate of the older messages retained after removing the first k.
RetainedOlder(k) ==
  SumTokens(SubSeq(OlderOf(cmPrev), k + 1, Len(OlderOf(cmPrev))))

\* C28: a compacting call removes a prefix of the messages before the
\* reserved tail, and that prefix is the shortest one after which the
\* estimate of the retained older messages is at most
\* max(available - summary cap - recent tokens, minimum retained size):
\* the bound is met after the removal, and it was not met after any
\* shorter removal.
C28_ShortestPrefixRemoved ==
  (cmPasses >= 1 /\ cmResult.compacted) =>
    /\ cmResult.removed <= Len(OlderOf(cmPrev))
    /\ RetainedOlder(cmResult.removed) <= OlderBound
    /\ \A j \in 0..(cmResult.removed - 1) : RetainedOlder(j) > OlderBound
    /\ SubSeq(cmBody, 2, Len(cmBody))
         = SubSeq(cmPrev, cmResult.removed + 1, Len(cmPrev))

\* C28 witness: the loop removed the oldest of two older messages and
\* stopped there, the other one being within the bound.
C28_Witness ==
  /\ cmPasses >= 1 /\ cmResult.compacted
  /\ Len(OlderOf(cmPrev)) = 2
  /\ cmResult.removed = 1
  /\ RetainedOlder(0) > OlderBound
  /\ RetainedOlder(1) > 0

\* The double nearest to the exact accrual of the call: elapsed/60 * Q
\* tokens, i.e. ms * Q / 60000.
ExactAccrual == DblDiv(DblOf(SumOf(call.intervals) * call.limit), 60000)

\* 2^-40 token
RoundingSlack == [m |-> <<1>> \o Zeros(MantissaBits - 1), e |-> -92]

\* x and y differ by less than the rounding slack
DblNear(x, y) ==
  /\ DblLess(x, DblAdd(y, RoundingSlack))
  /\ DblLess(y, DblAdd(x, RoundingSlack))

BelowCapacity == DblLess(ret.whole, DblOf(call.limit))

Successes == {i \in 1..Len(glmCall.log) : glmCall.log[i].outcome.kind = "ok"}

\* C31: callGLM ends after at most maxRetries + 1 (= 4) attempts: while it
\* runs its attempt counter stays within maxRetries, so that the attempt
\* in flight or the sleep in progress is followed by a bounded rest; a
\* successful attempt is the last one and the call has returned with it;
\* a call that failed made all its attempts and carries the error of the
\* last one.
C31_BoundedAttempts ==
  /\ Len(glmCall.log) <= RETRY_CONFIG.maxRetries + 1
  /\ glmCall.pc \in {"fetching", "backoff"} =>
       /\ glmCall.attempt <= RETRY_CONFIG.maxRetries
       /\ Len(glmCall.log) <= RETRY_CONFIG.maxRetries
       /\ ENABLED (BackoffEnds \/ \E o \in FetchOutcomes : AttemptEnds(o, 0))
  /\ \A i \in Successes : i = Len(glmCall.log) /\ glmCall.pc = "returned"
  /\ glmCall.pc = "returned" => Successes = {Len(glmCall.log)}
  /\ glmCall.pc = "thrown" =>
       /\ Successes = {}
       /\ Len(glmCall.log) = RETRY_CONFIG.maxRetries + 1
       /\ glmCall.lastError = glmCall.log[Len(glmCall.log)].outcome

\* C31 witness: a call that failed on its fourth attempt after three
\* different failures, and a call that returned on a later attempt.
C31_Witness ==
  /\ glmCall.pc = "thrown"
  /\ Len(glmCall.log) = 4
  /\ glmCall.log[1].outcome.kind = "timeout"
  /\ glmCall.log[2].outcome.kind = "garbled"
  /\ glmCall.log[4].outcome.kind = "status"
  /\ glmCall.lastError.status = 500

\* The position of an endpoint in the fallback list (0-based, -1 for a
\* GLM_BASE_URL that is not in the list).
Position(endpoint) == IndexOf(FALLBACK_ENDPOINTS, endpoint)

LastPosition == Len(FALLBACK_ENDPOINTS) - 1

Is5xx(o) == o.kind = "status" /\ o.status >= 500

\* C32: in callGLM each retried 5xx response moves the following attempt
\* to the next endpoint of the fallback list (it stays on the last one);
\* over one call the position in the list never moves backwards and never
\* passes the last endpoint; failures that are not 5xx responses leave
\* the endpoint unchanged.
C32_EndpointRotation ==
  \A i \in 1..(Len(glmCall.log) - 1) :
    LET this == glmCall.log[i]
        next == glmCall.log[i + 1]
    IN /\ Position(next.endpoint) >= Position(this.endpoint)
       /\ Position(next.endpoint) <= LastPosition
       /\ Is5xx(this.outcome) =>
            Position(next.endpoint)
              = Min(Position(this.endpoint) + 1, LastPosition)
       /\ ~Is5xx(this.outcome) => next.endpoint = this.endpoint

\* C33: retryWithBackoff invokes fn at most maxRetries + 1 times; it
\* returns the result of the first successful invocation without invoking
\* fn again; it rethrows a non-retryable error after that invocation
\* without waiting after it; every wait between invocations is at most
\* maxDelay and never shorter than the previous wait.
C33_BoundedRetry ==
  ret.fn = "retryWithBackoff" =>
    LET run == ret.run
        n == Len(run.invoked)
        out == call.outcomes
    IN /\ n <= call.options.maxRetries + 1
       /\ \A k \in 1..n : run.invoked[k] = k - 1
       /\ Len(run.waits) = n - 1
       /\ \A k \in 1..n :
            out[k].ok => k = n /\ run.result = "returned"
                             /\ run.value = k - 1
       /\ run.result = "returned" => out[n].ok
       /\ \A k \in 1..n :
            ~out[k].ok /\ ~isRetryable(out[k])
              => k = n /\ run.result = "thrown" /\ run.error = out[k]
       /\ run.result = "thrown" => run.error = out[n]
       /\ \A k \in 1..Len(run.waits) :
            /\ run.waits[k] <= call.options.maxDelay
            /\ k > 1 => run.waits[k] >= run.waits[k - 1]

\* C33 witness: with the default options, a rate limit and a timeout are
\* waited out (4000 ms, then 8000 ms) and the third invocation throws an
\* error that is not retryable.
C33_Witness ==
  /\ ret.fn = "retryWithBackoff"
  /\ call.options = [maxRetries |-> 3, initialDelay |-> 1000,
                     maxDelay |-> 60000, factor |-> 2]
  /\ ret.run.invoked = <<0, 1, 2>>
  /\ ret.run.waits = <<4000, 8000>>
  /\ ret.run.result = "thrown"
  /\ ~isRetryable(ret.run.error)

\* C35: decoding an emulated response is never fatal: for every assistant
\* text the upstream returns with status 200, also one whose delimited
\* blocks are valid JSON without a name or without arguments, the request
\* ends with a 200 unified response and not with an error.
C35_DecodingNeverFatal ==
  (ret.fn = "answer" /\ call.emulateTools) =>
    /\ ret.response.status = 200
    /\ ret.response = MessageResponse

\* a is b with some of its elements left out
RECURSIVE IsSubsequence(_, _)
IsSubsequence(a, b) ==
  IF a = <<>> THEN TRUE
  ELSE IF b = <<>> THEN FALSE
  ELSE IF Head(a) = Head(b) THEN IsSubsequence(Tail(a), Tail(b))
  ELSE IsSubsequence(a, Tail(b))

\* the calls written in a text, by name and arguments, left to right
CallsWritten(t) ==
  LET objs == SelectSeq(t, LAMBDA tok : tok \in JsonObjects)
  IN [k \in 1..Len(objs) |->
        [name |-> ToolName(objs[k]), input |-> ToolArguments(objs[k])]]

\* a text holds a delimited span
HasSpan(t) ==
  \E i \in 1..Len(t), j \in 1..Len(t) :
    i < j /\ t[i] = "OPEN" /\ t[j] = "CLOSE"

\* C34: in an emulated response the prose left after stripping the
\* delimited spans forms at most one text block, which holds no span and
\* comes before every tool_use block; the tool_use blocks follow the
\* left-to-right order of their spans in the assistant text; and the
\* content list of a unified response is never empty.
C34_TextThenInvocationsInOrder ==
  ret.fn = "openaiToAnthropic" =>
    /\ Len(ret.content) >= 1
    /\ (call.resp.choice /\ EmulatedPath) =>
         LET uses == ToolUses(ret.content)
             texts == SelectSeq(ret.content, LAMBDA b : b.type = "text")
         IN /\ Len(texts) <= 1
            /\ \A k \in 2..Len(ret.content) : ret.content[k].type = "tool_use"
            /\ \A k \in 1..Len(texts) : ~HasSpan(texts[k].text)
            /\ IsSubsequence([k \in 1..Len(uses) |->
                                [name |-> uses[k].name,
                                 input |-> uses[k].input]],
                             CallsWritten(call.resp.content))

\* C34 witness: a text of two blocks with different calls is decoded into
\* the two invocations in text order.
C34_Witness ==
  /\ ret.fn = "openaiToAnthropic"
  /\ EmulatedPath
  /\ call.resp.content = <<"OPEN", "J2", "CLOSE", "OPEN", "J1", "CLOSE">>
  /\ Len(ret.content) = 2
  /\ ret.content[1].name = "tool2"
  /\ ret.content[2].name = "tool1"

\* C36: a unified response that contains at least one tool_use block has
\* stop reason tool_use, in the native and in the emulated decoding path.
C36_ToolUseStopReason ==
  (ret.fn = "openaiToAnthropic" /\ ToolUses(ret.content) # <<>>) =>
    ret.stop_reason = "tool_use"

\* C37: for every translated provider (GLM, Featherless, Google) a request
\* that carries a non-empty tool list reaches the upstream with the tools
\* in exactly one of two forms: as a native tools field, or as a tool
\* catalog inside the system instructions; never in neither, never in
\* both.
C37_ToolsInExactlyOneForm ==
  (/\ ret.fn = "handleRequest"
   /\ ret.out.provider \in {"glm", "featherless", "google"}
   /\ call.body.tools.present
   /\ call.body.tools.list # <<>>) =>
    /\ ret.out.tools # <<>> \/ CatalogInjected(ret.out)
    /\ ~(ret.out.tools # <<>> /\ CatalogInjected(ret.out))

\* the estimate of a request as sent: its system content, its messages
\* and its max output tokens
SentEstimate(out) ==
  estimateTokens(out.system) + SumCheckTokens(out.messages) + out.max_tokens

\* C38: every request sent to Featherless is within the model's context
\* limit as sent: the estimate of the outbound system content (with the
\* injected tool catalog and instructions when emulating), plus all its
\* messages, plus its max output tokens, does not exceed the limit.
C38_SentWithinLimit ==
  (ret.fn = "featherlessOutbound" /\ ret.out.sent) =>
    SentEstimate(ret.out) <= ret.out.limit

\* the request arriving in this step goes to a handler that checks a
\* credential and finds none
ArrivesWithoutCredentials(r) ==
  /\ inbound[r].kind = "none"
  /\ inbound'[r].kind = "messages"
  /\ parseModel(inbound'[r].model).provider
       \in {"featherless", "google", "anthropic"}
  /\ parseModel(inbound'[r].model).provider \notin inbound'[r].keys

\* C39: a request rejected for missing credentials (Featherless, Google,
\* Anthropic) is answered with HTTP 401 and error type
\* authentication_error before admission: the step changes no bucket of
\* the rate limiter, the request never enters admission, and no outbound
\* call is made for it.
C39_Unauthenticated401 ==
  [][\A r \in Req :
       /\ ArrivesWithoutCredentials(r) =>
            /\ response'[r] = ErrorResponse(401, "authentication_error")
            /\ pc'[r] = "done"
            /\ buckets' = buckets
            /\ lastRefill' = lastRefill
            /\ admittedCount' = admittedCount
            /\ ~granted'[r]
            /\ ~Ran(stages'[r], "admission")
       /\ response'[r] = ErrorResponse(401, "authentication_error") =>
            /\ ~outbound'[r]
            /\ ~Ran(stages'[r], "transport")]_vars

\* C39 witness: a Google request without Google authentication has been
\* answered 401 after the credential check.
C39_Witness ==
  \E r \in Req :
    /\ inbound[r].kind = "messages"
    /\ parseModel(inbound[r].model).provider = "google"
    /\ inbound[r].keys = {}
    /\ response[r].status = 401
    /\ pc[r] = "done"
    /\ stages[r] = <<"resolution", "credentials">>

\* the handler of the request is over
HandlerOver(st) == st \in {"done", "rejected", "ctxerror"}

\* C40: every inbound request to /v1/messages whose body was received is
\* answered exactly once, also with several requests in flight: a
\* response is written only for a request that has none yet; the handler
\* is over exactly when a response has been written (on every path: parse
\* failure, authentication failure, admission timeout, compaction
\* insufficient, upstream error, transport failure, success); and after
\* the answer nothing more happens for the request but the release of its
\* slot.
C40_AnsweredExactlyOnce ==
  [][\A r \in Req :
       /\ response'[r] # response[r] =>
            response[r] = NoResponse \/ response'[r] = NoResponse
       /\ HandlerOver(pc'[r]) <=> response'[r] # NoResponse
       /\ (HandlerOver(pc[r]) /\ pc'[r] # pc[r]) =>
            /\ pc'[r] = "idle"
            /\ response'[r] = NoResponse
       /\ HandlerOver(pc[r]) => response'[r] \in {response[r], NoResponse}
       /\ (response'[r] # NoResponse /\ response[r] = NoResponse) =>
            \A q \in Req \ {r} : response'[q] = response[q]]_vars

\* C40 witness: two requests were in flight together and each has its
\* own answer, one the 429 of an admission timeout, the other the
\* translated message.
C40_Witness ==
  \E r \in Req, q \in Req :
    /\ r # q
    /\ response[r] = ErrorResponse(429, "rate_limit_error")
    /\ response[q] = MessageResponse
    /\ startTime[r] = 0 /\ pc[r] = "rejected" /\ pc[q] = "done"

====
